---- MODULE Spec2Model ----
(***************************************************************************)
(* The provider registry of src/lib/providerRegistry.ts: an in-memory Map   *)
(* from provider key to template, a Set of change callbacks, the config     *)
(* loader with its validator, and the asynchronous URL loader.              *)
(***************************************************************************)
EXTENDS Integers, Sequences, FiniteSets, TLC

\* Longest sequence handed to registerProviders or found in config.providers.
MaxBundle == 2
\* Most unsubscribe handles of one callback that are held without being called.
MaxSubs == 2
\* Most loadProvidersFromUrl calls suspended at the same time.
MaxLoads == 2
\* Most uploadFile calls suspended at the same time.
MaxUploads == 2
\* Most requests of the upload service that are recorded.
MaxRequests == 2
\* Most elements a caller leaves in an array it got from the registry.
MaxHeld == 3
\* Most calls of the generation service suspended at the same time.
MaxCalls == 2

(***************************************************************************)
(* JavaScript values, as far as the registry looks at them.                 *)
(***************************************************************************)
Undef == [t |-> "undefined", v |-> ""]
Str(s) == [t |-> "string", v |-> s]
Num == [t |-> "number", v |-> "42"]
Bool == [t |-> "boolean", v |-> "true"]
Arr(c) == [t |-> "array", v |-> c]

\* typeof x
TypeOf(x) == IF x.t \in {"array", "null"} THEN "object" ELSE x.t
\* Array.isArray(x)
IsArray(x) == x.t = "array"

\* A value found where a ProviderTemplate is expected.  Property reads on a
\* primitive give undefined; property reads on null/undefined throw.
Obj(p, u, s, a) ==
  [kind |-> "object", provider |-> p, base_url |-> u, settings |-> s, active |-> a]
NullEl == [kind |-> "null", provider |-> Undef, base_url |-> Undef,
           settings |-> Undef, active |-> Undef]
UndefEl == [kind |-> "undefined", provider |-> Undef, base_url |-> Undef,
            settings |-> Undef, active |-> Undef]
NumEl == [kind |-> "number", provider |-> Undef, base_url |-> Undef,
          settings |-> Undef, active |-> Undef]
Nullish(e) == e.kind \in {"null", "undefined"}

A1 == Obj(Str("p1"), Str("https://a1"), Arr("[]"), Undef)
A2 == Obj(Str("p1"), Str("https://a2"), Arr("[s]"), Bool)
B1 == Obj(Str("p2"), Str("https://b1"), Arr("[]"), Undef)
\* Templates the validator rejects.
NoUrl == Obj(Str("p2"), Undef, Arr("[]"), Undef)
NoSettings == Obj(Str("p1"), Str("https://a1"), Undef, Bool)
NumKey == Obj(Num, Str("https://n1"), Arr("[]"), Undef)

ValidTemplates == {A1, A2, B1}
Templates == ValidTemplates \cup {NoUrl}
Elements == ValidTemplates \cup {NoUrl, NoSettings, NumKey, NullEl}
Keys == {Str("p1"), Str("p2"), Str("p3")}

\* Sequences over S of length at most n.
SeqsUpTo(S, n) == UNION {[1..k -> S] : k \in 0..n}

\* A value found where an ExternalProviderConfig is expected.
Config(ps, ver) == [kind |-> "object", providers |-> ps, version |-> ver]
NoArray == [t |-> "undefined", items |-> <<>>]
StrArray == [t |-> "string", items |-> <<>>]
Array(items) == [t |-> "array", items |-> items]
NullConfig == [kind |-> "null", providers |-> NoArray, version |-> Undef]
UndefConfig == [kind |-> "undefined", providers |-> NoArray, version |-> Undef]

(***************************************************************************)
(* Map<string, ProviderTemplate> and Set<() => void>, both in insertion     *)
(* order, as sequences.                                                     *)
(***************************************************************************)
MapHas(m, k) == \E i \in 1..Len(m) : m[i].key = k
MapGet(m, k) ==
  IF MapHas(m, k) THEN m[CHOOSE i \in 1..Len(m) : m[i].key = k].value ELSE UndefEl
MapSetAppend(m, k, val) == Append(m, [key |-> k, value |-> val])
MapSetKeepFirst(m, k, val) ==
  IF MapHas(m, k) THEN m ELSE Append(m, [key |-> k, value |-> val])
MapSet(m, k, val) ==
  IF MapHas(m, k)
  THEN [i \in 1..Len(m) |-> IF m[i].key = k THEN [key |-> k, value |-> val] ELSE m[i]]
  ELSE Append(m, [key |-> k, value |-> val])
MapDelete(m, k) == SelectSeq(m, LAMBDA e : e.key # k)
MapValues(m) == [i \in 1..Len(m) |-> m[i].value]
MapKeys(m) == {m[i].key : i \in 1..Len(m)}

SetHas(s, x) == \E i \in 1..Len(s) : s[i] = x
SetAddList(s, x) == Append(s, x)
SetAdd(s, x) == IF SetHas(s, x) THEN s ELSE Append(s, x)
SetDeleteNone(s, x) == s
SetDelete(s, x) == SelectSeq(s, LAMBDA y : y # x)

(***************************************************************************)
(* Results of a call: it returns, or it throws an error with a message.     *)
(***************************************************************************)
Ok == [kind |-> "ok", message |-> <<>>]
Pending == [kind |-> "pending", message |-> <<>>]
Error(msg) == [kind |-> "Error", message |-> msg]
TypeError == [kind |-> "TypeError", message |-> <<"Cannot read properties of null">>]
CallbackError == [kind |-> "Error", message |-> <<"Callback error">>]
InvalidFormat == Error(<<"Invalid provider configuration format">>)

Callbacks == {"f", "g", "boom"}
\* The callbacks that throw when invoked.
Throwing == {"boom"}
\* Callbacks that change the subscriptions while they run: dropG calls the
\* unsubscribe handle of g, addG calls onProvidersChanged(g).
Reentrant == {"dropG", "addG"}
Listeners == Callbacks \cup Reentrant

VARIABLES
  externalProviders,      \* the Map, a sequence of [key, value]
  providerLoadCallbacks,  \* the Set of callbacks, a sequence
  liveHandles,            \* per callback: unsubscribe handles not yet called
  spentHandles,           \* callbacks with a handle that has been called
  unsubscribedSince,      \* callbacks whose handle was called, not subscribed since
  notifyLog,              \* the callbacks the last operation invoked, in order
  lastOp,                 \* the last operation, its arguments and its result
  loads,                  \* the suspended loadProvidersFromUrl calls
  held,                   \* the array a caller got from getRegisteredProviders
  apiKey,                 \* ImgBBService.apiKey
  requests,               \* the HTTP requests the upload service has issued
  uploads,                \* the suspended uploadFile calls
  poll,                   \* PollinationsService.apiKey and .baseUrl
  genRequests,            \* the HTTP requests the generation service has issued
  genCalls,               \* the suspended calls of the generation service
  hook,                   \* useAIGeneration: isGenerating and error
  multi                   \* the suspended uploadMultiple call

vars == <<externalProviders, providerLoadCallbacks, liveHandles, spentHandles,
          unsubscribedSince, notifyLog, lastOp, loads, held, apiKey, requests,
          uploads, poll, genRequests, genCalls, hook, multi>>

genVars == <<poll, genRequests, genCalls, hook, multi>>
\* What the registry's methods never touch.
clientVars == <<held, apiKey, requests, uploads, poll, genRequests, genCalls, hook, multi>>

Op(name, args, config, id, cb, url, result) ==
  [op |-> name, args |-> args, config |-> config, id |-> id, cb |-> cb,
   url |-> url, fetches |-> 0, ret |-> <<>>, result |-> result]

Idle == [pc |-> "idle", url |-> "", fetches |-> 0]
(***************************************************************************)
(* ImgBBService: the values uploadFile is called with.                      *)
(***************************************************************************)
\* file: File | string.  A string is taken as base64; of a File, `dataUrl` is
\* what FileReader.readAsDataURL gives, as its characters in chunks.
StringFile(b) == [kind |-> "string", text |-> b, readable |-> TRUE, dataUrl |-> <<>>]
BlobFile(url) == [kind |-> "File", text |-> "", readable |-> TRUE, dataUrl |-> url]
\* A File the reader fails on (reader.onerror).
Unreadable == [kind |-> "File", text |-> "", readable |-> FALSE, dataUrl |-> <<>>]

\* options: {name?: string, expiration?: number}; an absent property is <<>>.
Options(name, expiration) == [name |-> name, expiration |-> expiration]
NoOptions == Options(<<>>, <<>>)

\* No uploadFile call in a slot.
\* `via` names the function of useAIGeneration that awaits the call ("" when
\* the service was called directly) and `then` holds what that function goes
\* on with.
NoUpload ==
  [pc |-> "idle", fetches |-> 0, file |-> Unreadable, options |-> NoOptions,
   form |-> <<>>, url |-> "", body |-> "", via |-> "", then |-> <<>>]
\* PollinationsService after construction with the environment's key.
NewService(key) == [apiKey |-> key, baseUrl |-> "https://gen.pollinations.ai"]
\* No call of the generation service in a slot.
NoCall == [pc |-> "idle", op |-> "", via |-> "", fetches |-> 0, body |-> ""]
\* useState(false), useState(null)
NewHook == [isGenerating |-> FALSE, error |-> <<>>]
\* No uploadMultiple call in progress.
NoMulti == [pc |-> "idle", files |-> <<>>, entries |-> <<>>, error |-> <<>>, ret |-> <<>>]
\* No array handed out yet.
NoArrayHeld == [shared |-> FALSE, items |-> <<>>]

Init ==
  /\ externalProviders = <<>>
  /\ providerLoadCallbacks = <<>>
  /\ liveHandles = [c \in Listeners |-> 0]
  /\ spentHandles = {}
  /\ unsubscribedSince = {}
  /\ notifyLog = <<>>
  /\ lastOp = Op("init", <<>>, NullConfig, Undef, "", "", Ok)
  /\ loads = [s \in 1..MaxLoads |-> Idle]
  /\ held = NoArrayHeld
  /\ apiKey = ""
  /\ requests = <<>>
  /\ uploads = [s \in 1..MaxUploads |-> NoUpload]
  /\ poll = NewService("")
  /\ genRequests = <<>>
  /\ genCalls = [s \in 1..MaxCalls |-> NoCall]
  /\ hook = NewHook
  /\ multi = NoMulti

(***************************************************************************)
(* Queries.                                                                 *)
(***************************************************************************)
getRegisteredProviders(m) == MapValues(m)
getProviderOrFirst(m, id) ==
  IF MapHas(m, id) \/ m = <<>> THEN MapGet(m, id) ELSE m[1].value
getProvider(m, id) == MapGet(m, id)
hasProvider(m, id) == MapHas(m, id)

(***************************************************************************)
(* notifyListeners: each callback in the Set's order, inside try/catch.     *)
(* A callback reads getRegisteredProviders() (as the hook's updateProviders *)
(* does) and then returns or throws.                                        *)
(***************************************************************************)
Invoke(cb, m) == [cb |-> cb, seen |-> getRegisteredProviders(m), threw |-> cb \in Throwing]

RECURSIVE notifyNoCatch(_, _)
notifyNoCatch(cbs, m) ==
  IF cbs = <<>> THEN [log |-> <<>>, thrown |-> FALSE]
  ELSE LET r == Invoke(Head(cbs), m) IN
       IF r.threw THEN [log |-> <<r>>, thrown |-> TRUE]
       ELSE LET rest == notifyNoCatch(Tail(cbs), m) IN
            [log |-> <<r>> \o rest.log, thrown |-> rest.thrown]

RECURSIVE notifyEach(_, _)
notifyEach(cbs, m) ==
  IF cbs = <<>> THEN [log |-> <<>>, thrown |-> FALSE]
  ELSE LET r == Invoke(Head(cbs), m)
           rest == notifyEach(Tail(cbs), m)
       IN  [log |-> <<r>> \o rest.log, thrown |-> rest.thrown]

\* The Set while forEach walks it: an entry deleted during the walk stays in
\* the list as an empty place, an entry added is appended.
SetEntry(cb, live) == [cb |-> cb, live |-> live]
Effect(cb, es) ==
  CASE cb = "dropG" ->
         [i \in 1..Len(es) |-> IF es[i].cb = "g" THEN SetEntry("g", FALSE) ELSE es[i]]
    [] cb = "addG" ->
         IF \E i \in 1..Len(es) : es[i] = SetEntry("g", TRUE) THEN es
         ELSE Append(es, SetEntry("g", TRUE))
    [] OTHER -> es

\* Set.prototype.forEach from place i on: each entry still in the Set when its
\* turn comes is called once, entries added meanwhile included.
RECURSIVE forEach(_, _, _)
forEach(es, i, m) ==
  IF i > Len(es) THEN [log |-> <<>>, entries |-> es]
  ELSE IF ~es[i].live THEN forEach(es, i + 1, m)
  ELSE LET rest == forEach(Effect(es[i].cb, es), i + 1, m)
       IN  [log |-> <<Invoke(es[i].cb, m)>> \o rest.log, entries |-> rest.entries]

\* this.providerLoadCallbacks.forEach(callback => { try { callback() } catch ... }):
\* the callbacks invoked, and the Set afterwards.
notifyListeners(cbs, m) ==
  LET w == forEach([i \in 1..Len(cbs) |-> SetEntry(cbs[i], TRUE)], 1, m)
      left == SelectSeq(w.entries, LAMBDA e : e.live)
  IN  [log |-> w.log, thrown |-> FALSE, cbs |-> [i \in 1..Len(left) |-> left[i].cb]]

\* The unsubscribe handles after the callbacks of a batch have run.
RECURSIVE handlesAfter(_, _)
handlesAfter(log, h) ==
  IF log = <<>> THEN h
  ELSE handlesAfter(Tail(log),
         CASE Head(log).cb = "dropG" ->
                IF h.live["g"] > 0
                THEN [live |-> [h.live EXCEPT !["g"] = @ - 1], spent |-> h.spent \cup {"g"},
                      since |-> h.since \cup {"g"}]
                ELSE h
           [] Head(log).cb = "addG" ->
                [live |-> [h.live EXCEPT !["g"] = @ + 1], spent |-> h.spent,
                 since |-> h.since \ {"g"}]
           [] OTHER -> h)

Outcome(n) == IF n.thrown THEN CallbackError ELSE Ok

(***************************************************************************)
(* validateProviderConfig: !config, Array.isArray(config.providers), then   *)
(* providers.every(...), which stops at the first element that fails and    *)
(* throws when it reads a property of a null or undefined element.          *)
(***************************************************************************)
ElementOkNoSettings(e) ==
  /\ TypeOf(e.provider) = "string"
  /\ TypeOf(e.base_url) = "string"

ElementOk(e) ==
  /\ TypeOf(e.provider) = "string"
  /\ TypeOf(e.base_url) = "string"
  /\ IsArray(e.settings)

RECURSIVE every(_)
every(items) ==
  IF items = <<>> THEN "true"
  ELSE IF Nullish(Head(items)) THEN "TypeError"
  ELSE IF ElementOk(Head(items)) THEN every(Tail(items))
  ELSE "false"

RECURSIVE some(_)
some(items) ==
  IF items = <<>> THEN "false"
  ELSE IF Nullish(Head(items)) THEN "TypeError"
  ELSE IF ElementOk(Head(items)) THEN "true"
  ELSE some(Tail(items))

validateSome(config) ==
  IF Nullish(config) \/ ~IsArray(config.providers) THEN "false"
  ELSE IF config.providers.items = <<>> THEN "true"
  ELSE some(config.providers.items)

validateProviderConfig(config) ==
  IF Nullish(config) \/ ~IsArray(config.providers) THEN "false"
  ELSE every(config.providers.items)

(***************************************************************************)
(* The mutating methods, as functions of the Map and the Set: the new Map,  *)
(* the callbacks invoked, and how the call ended.                           *)
(***************************************************************************)
Done(m, n) ==
  [map |-> m, log |-> n.log, result |-> Outcome(n),
   cbs |-> IF "cbs" \in DOMAIN n THEN <<n.cbs>> ELSE <<>>]

registerProviderNotifyFirst(m, cbs, t) ==
  LET n == notifyListeners(cbs, m) IN Done(MapSet(m, t.provider, t), n)

registerProviderValidated(m, cbs, t) ==
  IF ElementOk(t)
  THEN Done(MapSet(m, t.provider, t), notifyListeners(cbs, MapSet(m, t.provider, t)))
  ELSE [map |-> m, log |-> <<>>, result |-> InvalidFormat]

registerProvider(m, cbs, t) ==
  LET m2 == MapSet(m, t.provider, t) IN Done(m2, notifyListeners(cbs, m2))

\* providers.forEach(p => this.externalProviders.set(p.provider, p))
RECURSIVE setEach(_, _)
setEach(m, ts) ==
  IF ts = <<>> THEN [map |-> m, thrown |-> FALSE]
  ELSE IF Nullish(Head(ts)) THEN [map |-> m, thrown |-> TRUE]
  ELSE setEach(MapSet(m, Head(ts).provider, Head(ts)), Tail(ts))

RECURSIVE registerProvidersPerItem(_, _, _)
registerProvidersPerItem(m, cbs, ts) ==
  IF ts = <<>> THEN [map |-> m, log |-> <<>>, result |-> Ok]
  ELSE LET one == registerProvider(m, cbs, Head(ts))
           rest == registerProvidersPerItem(one.map, cbs, Tail(ts))
       IN  [map |-> rest.map, log |-> one.log \o rest.log, result |-> rest.result]

registerProviders(m, cbs, ts) ==
  LET s == setEach(m, ts) IN
  IF s.thrown THEN [map |-> s.map, log |-> <<>>, result |-> TypeError]
  ELSE Done(s.map, notifyListeners(cbs, s.map))

unregisterProviderIfPresent(m, cbs, id) ==
  IF MapHas(m, id) THEN Done(MapDelete(m, id), notifyListeners(cbs, MapDelete(m, id)))
  ELSE [map |-> m, log |-> <<>>, result |-> Ok]

unregisterProvider(m, cbs, id) ==
  LET m2 == MapDelete(m, id) IN Done(m2, notifyListeners(cbs, m2))

clearAllKeepLast(m, cbs) ==
  LET m2 == IF m = <<>> THEN m ELSE <<m[Len(m)]>> IN Done(m2, notifyListeners(cbs, m2))

clearAll(m, cbs) == Done(<<>>, notifyListeners(cbs, <<>>))

\* A variant that tells the listeners about a rejected bundle too.
loadProvidersFromConfigNotifyAlways(m, cbs, config) ==
  LET ok == validateProviderConfig(config) IN
  IF ok = "true" THEN registerProviders(m, cbs, config.providers.items)
  ELSE [map |-> m, log |-> notifyListeners(cbs, m).log,
        result |-> IF ok = "false" THEN InvalidFormat ELSE TypeError]

loadProvidersFromConfig(m, cbs, config) ==
  LET ok == validateProviderConfig(config) IN
  IF ok = "true" THEN registerProviders(m, cbs, config.providers.items)
  ELSE [map |-> m, log |-> <<>>,
        result |-> IF ok = "false" THEN InvalidFormat ELSE TypeError]

(***************************************************************************)
(* One action per call of a registry method.                                *)
(***************************************************************************)
\* The Set and the handles after the batch of a call that ended as r.
Notified(r) ==
  /\ providerLoadCallbacks' =
       IF "cbs" \in DOMAIN r /\ r.cbs # <<>> THEN r.cbs[1] ELSE providerLoadCallbacks
  /\ LET h == handlesAfter(r.log, [live |-> liveHandles, spent |-> spentHandles,
                                   since |-> unsubscribedSince])
     IN  /\ liveHandles' = h.live
         /\ spentHandles' = h.spent
         /\ unsubscribedSince' = h.since

Apply(r, op) ==
  /\ externalProviders' = r.map
  /\ notifyLog' = r.log
  /\ lastOp' = [op EXCEPT !.result = r.result]
  /\ Notified(r)
  /\ UNCHANGED loads /\ UNCHANGED clientVars

RegisterProvider(t) ==
  Apply(registerProvider(externalProviders, providerLoadCallbacks, t),
        Op("registerProvider", <<t>>, NullConfig, t.provider, "", "", Ok))

RegisterProviders(ts) ==
  Apply(registerProviders(externalProviders, providerLoadCallbacks, ts),
        Op("registerProviders", ts, NullConfig, Undef, "", "", Ok))

UnregisterProvider(id) ==
  Apply(unregisterProvider(externalProviders, providerLoadCallbacks, id),
        Op("unregisterProvider", <<>>, NullConfig, id, "", "", Ok))

ClearAll ==
  Apply(clearAll(externalProviders, providerLoadCallbacks),
        Op("clearAll", <<>>, NullConfig, Undef, "", "", Ok))

LoadProvidersFromConfig(config) ==
  Apply(loadProvidersFromConfig(externalProviders, providerLoadCallbacks, config),
        Op("loadProvidersFromConfig", <<>>, config, Undef, "", "", Ok))

\* onProvidersChanged(cb): add to the Set, hand back a handle.
OnProvidersChanged(cb) ==
  /\ liveHandles[cb] < MaxSubs
  /\ providerLoadCallbacks' = SetAdd(providerLoadCallbacks, cb)
  /\ liveHandles' = [liveHandles EXCEPT ![cb] = @ + 1]
  /\ unsubscribedSince' = unsubscribedSince \ {cb}
  /\ notifyLog' = <<>>
  /\ lastOp' = Op("onProvidersChanged", <<>>, NullConfig, Undef, cb, "", Ok)
  /\ UNCHANGED <<externalProviders, spentHandles, loads>> /\ UNCHANGED clientVars

\* A handle returned for cb is called for the first time.
Unsubscribe(cb) ==
  /\ liveHandles[cb] > 0
  /\ providerLoadCallbacks' = SetDelete(providerLoadCallbacks, cb)
  /\ liveHandles' = [liveHandles EXCEPT ![cb] = @ - 1]
  /\ spentHandles' = spentHandles \cup {cb}
  /\ unsubscribedSince' = unsubscribedSince \cup {cb}
  /\ notifyLog' = <<>>
  /\ lastOp' = Op("unsubscribe", <<>>, NullConfig, Undef, cb, "", Ok)
  /\ UNCHANGED <<externalProviders, loads>> /\ UNCHANGED clientVars

\* A handle returned for cb that was called before is called again.
UnsubscribeAgain(cb) ==
  /\ cb \in spentHandles
  /\ providerLoadCallbacks' = SetDelete(providerLoadCallbacks, cb)
  /\ unsubscribedSince' = unsubscribedSince \cup {cb}
  /\ notifyLog' = <<>>
  /\ lastOp' = Op("unsubscribeAgain", <<>>, NullConfig, Undef, cb, "", Ok)
  /\ UNCHANGED <<externalProviders, liveHandles, spentHandles, loads>> /\ UNCHANGED clientVars

(***************************************************************************)
(* The queries, and the array a caller got from getRegisteredProviders().   *)
(* A JavaScript array is a reference: `shared` says whether the array the   *)
(* caller holds is the registry's own storage or an array of its own, and   *)
(* HeldItems is what the caller reads from it.                              *)
(***************************************************************************)
Boolean(b) == [kind |-> "boolean", value |-> b]
Query(name, id, ret) ==
  [Op(name, <<>>, NullConfig, id, "", "", Ok) EXCEPT !.ret = ret]
registryVars ==
  <<externalProviders, providerLoadCallbacks, liveHandles, spentHandles,
    unsubscribedSince, loads>>

GetProvider(id) ==
  /\ lastOp' = Query("getProvider", id, <<getProvider(externalProviders, id)>>)
  /\ notifyLog' = <<>>
  /\ UNCHANGED registryVars /\ UNCHANGED clientVars

HasProvider(id) ==
  /\ lastOp' = Query("hasProvider", id, <<Boolean(hasProvider(externalProviders, id))>>)
  /\ notifyLog' = <<>>
  /\ UNCHANGED registryVars /\ UNCHANGED clientVars

SnapshotLive(m) == [shared |-> TRUE, items |-> <<>>]
\* Array.from(...) makes a new array.
Snapshot(m) == [shared |-> FALSE, items |-> getRegisteredProviders(m)]

HeldItems == IF held.shared THEN MapValues(externalProviders) ELSE held.items

GetRegisteredProviders ==
  /\ held' = Snapshot(externalProviders)
  /\ lastOp' = Query("getRegisteredProviders", Undef,
                     getRegisteredProviders(externalProviders))
  /\ notifyLog' = <<>>
  /\ UNCHANGED registryVars /\ UNCHANGED <<apiKey, requests, uploads>>
  /\ UNCHANGED genVars

\* The caller pushes t onto the array it holds.
PushHeld(t) ==
  /\ Len(HeldItems) < MaxHeld
  /\ IF held.shared
     THEN /\ externalProviders' = MapSet(externalProviders, t.provider, t)
          /\ held' = held
     ELSE /\ held' = [held EXCEPT !.items = Append(@, t)]
          /\ externalProviders' = externalProviders
  /\ lastOp' = Query("push", Undef, <<t>>)
  /\ notifyLog' = <<>>
  /\ UNCHANGED <<providerLoadCallbacks, liveHandles, spentHandles,
                 unsubscribedSince, loads, apiKey, requests, uploads>>
  /\ UNCHANGED genVars

\* The caller pops the last element off the array it holds.
PopHeld ==
  /\ HeldItems # <<>>
  /\ IF held.shared
     THEN /\ externalProviders' = SubSeq(externalProviders, 1, Len(externalProviders) - 1)
          /\ held' = held
     ELSE /\ held' = [held EXCEPT !.items = SubSeq(@, 1, Len(@) - 1)]
          /\ externalProviders' = externalProviders
  /\ lastOp' = Query("pop", Undef, <<HeldItems[Len(HeldItems)]>>)
  /\ notifyLog' = <<>>
  /\ UNCHANGED <<providerLoadCallbacks, liveHandles, spentHandles,
                 unsubscribedSince, loads, apiKey, requests, uploads>>
  /\ UNCHANGED genVars

Bundles == SeqsUpTo(ValidTemplates, MaxBundle)

SomeConfigs ==
  {NullConfig, Config(NoArray, Str("1.0")), Config(Array(<<>>), Undef),
   Config(Array(<<A1, B1>>), Str("1.0")), Config(Array(<<A2, NoUrl>>), Str("1.0"))}

\* The registry's synchronous methods, each callback subscribed at most once
\* at a time.
Next ==
  \/ \E t \in Templates : RegisterProvider(t)
  \/ \E ts \in Bundles : RegisterProviders(ts)
  \/ \E id \in Keys : UnregisterProvider(id)
  \/ ClearAll
  \/ \E c \in SomeConfigs : LoadProvidersFromConfig(c)
  \/ \E cb \in Callbacks : liveHandles[cb] = 0 /\ OnProvidersChanged(cb)
  \/ \E cb \in Callbacks : Unsubscribe(cb)

Spec == Init /\ [][Next]_vars

\* Subscriptions in full (a callback subscribed several times, handles called
\* more than once) around a few mutations.
NextSubs ==
  \/ \E cb \in Callbacks : OnProvidersChanged(cb)
  \/ \E cb \in Callbacks : Unsubscribe(cb)
  \/ \E cb \in Callbacks : UnsubscribeAgain(cb)
  \/ \E t \in {A1, B1} : RegisterProvider(t)
  \/ UnregisterProvider(Str("p1"))
  \/ ClearAll

SpecSubs == Init /\ [][NextSubs]_vars

\* Mutations while listeners are subscribed that subscribe or unsubscribe g
\* from inside their callback.
LiveListeners == {"f", "g", "dropG", "addG"}
NextLive ==
  \/ \E cb \in LiveListeners :
       ~SetHas(providerLoadCallbacks, cb) /\ liveHandles[cb] = 0 /\ OnProvidersChanged(cb)
  \/ \E cb \in LiveListeners : Unsubscribe(cb)
  \/ liveHandles["g"] < MaxSubs /\ RegisterProvider(A1)
  \/ liveHandles["g"] < MaxSubs /\ ClearAll

SpecLive == Init /\ [][NextLive]_vars

\* Every shape of bundle handed to loadProvidersFromConfig.
AllConfigs ==
  {NullConfig, UndefConfig}
    \cup {Config(ps, ver) : ps \in {NoArray, StrArray}, ver \in {Undef, Str("1.0")}}
    \cup {Config(Array(items), ver) :
            items \in SeqsUpTo(Elements, MaxBundle), ver \in {Undef, Str("1.0")}}

NextLoader ==
  \/ \E c \in AllConfigs : LoadProvidersFromConfig(c)
  \/ ClearAll

SpecLoader == Init /\ [][NextLoader]_vars

(***************************************************************************)
(* loadProvidersFromUrl: the call suspends at `await fetch(url)` and at     *)
(* `await response.json()`; other calls run while it is suspended.          *)
(***************************************************************************)
Response(net, ok, statusText, json, body) ==
  [net |-> net, ok |-> ok, statusText |-> statusText, json |-> json, body |-> body]

\* What the server behind each URL answers.
Serve(url) ==
  CASE url = "https://cfg/a" ->
         Response("up", TRUE, "OK", "parsed", Config(Array(<<A1, B1>>), Str("1.0")))
    [] url = "https://cfg/b" ->
         Response("up", TRUE, "OK", "parsed", Config(Array(<<A2>>), Undef))
    [] url = "https://cfg/invalid" ->
         Response("up", TRUE, "OK", "parsed", Config(Array(<<B1, NoUrl>>), Undef))
    [] url = "https://cfg/null" ->
         Response("up", TRUE, "OK", "parsed", Config(Array(<<A1, NullEl>>), Str("1.0")))
    [] url = "https://cfg/empty" ->
         Response("up", TRUE, "OK", "parsed", Config(Array(<<>>), Undef))
    [] url = "https://cfg/missing" ->
         Response("up", FALSE, "Not Found", "parsed", NullConfig)
    [] url = "https://cfg/broken" ->
         Response("up", FALSE, "Internal Server Error", "parsed", NullConfig)
    [] url = "https://cfg/html" ->
         Response("up", TRUE, "OK", "malformed", NullConfig)
    [] OTHER ->
         Response("down", FALSE, "", "parsed", NullConfig)

Urls == {"https://cfg/a", "https://cfg/b", "https://cfg/invalid", "https://cfg/null",
         "https://cfg/missing",
         "https://cfg/broken", "https://cfg/html", "https://cfg/down"}

FetchFailed(url, statusText) ==
  Error(<<"Failed to fetch providers from ", url, ": ", statusText>>)
NetworkError == [kind |-> "TypeError", message |-> <<"Failed to fetch">>]
SyntaxError == [kind |-> "SyntaxError", message |-> <<"Unexpected token">>]

FreeSlots == {s \in 1..MaxLoads : loads[s].pc = "idle"}

UrlOp(l, result) ==
  [Op("loadProvidersFromUrl", <<>>, Serve(l.url).body, Undef, "", l.url, result)
     EXCEPT !.fetches = l.fetches]

\* The call starts: fetch(url) is issued and the call suspends.
LoadProvidersFromUrl(url) ==
  /\ FreeSlots # {}
  /\ LET s == CHOOSE x \in FreeSlots : \A y \in FreeSlots : x <= y
         l == [pc |-> "fetch", url |-> url, fetches |-> 1]
     IN  /\ loads' = [loads EXCEPT ![s] = l]
         /\ lastOp' = UrlOp(l, Pending)
  /\ notifyLog' = <<>>
  /\ UNCHANGED <<externalProviders, providerLoadCallbacks, liveHandles,
                 spentHandles, unsubscribedSince>> /\ UNCHANGED clientVars

\* The call ends by throwing: console.error, then the error goes to the caller.
Rejects(s, err) ==
  /\ loads' = [loads EXCEPT ![s] = Idle]
  /\ lastOp' = UrlOp(loads[s], err)
  /\ notifyLog' = <<>>
  /\ UNCHANGED <<externalProviders, providerLoadCallbacks, liveHandles,
                 spentHandles, unsubscribedSince>> /\ UNCHANGED clientVars

\* A variant that fetches a second time after a non-success status.
FetchSettlesRetry(s) ==
  /\ loads[s].pc = "fetch"
  /\ LET r == Serve(loads[s].url) IN
     IF r.net = "down" THEN Rejects(s, NetworkError)
     ELSE IF ~r.ok /\ loads[s].fetches < 2
     THEN /\ loads' = [loads EXCEPT ![s].fetches = @ + 1]
          /\ lastOp' = UrlOp(loads'[s], Pending)
          /\ notifyLog' = <<>>
          /\ UNCHANGED <<externalProviders, providerLoadCallbacks, liveHandles,
                         spentHandles, unsubscribedSince>> /\ UNCHANGED clientVars
     ELSE IF ~r.ok THEN Rejects(s, FetchFailed(loads[s].url, r.statusText))
     ELSE /\ loads' = [loads EXCEPT ![s].pc = "json"]
          /\ lastOp' = UrlOp(loads[s], Pending)
          /\ notifyLog' = <<>>
          /\ UNCHANGED <<externalProviders, providerLoadCallbacks, liveHandles,
                         spentHandles, unsubscribedSince>> /\ UNCHANGED clientVars

\* A variant that registers the first template as soon as the response is in.
FetchSettlesEager(s) ==
  /\ loads[s].pc = "fetch"
  /\ LET r == Serve(loads[s].url) IN
     IF r.net = "down" THEN Rejects(s, NetworkError)
     ELSE IF ~r.ok THEN Rejects(s, FetchFailed(loads[s].url, r.statusText))
     ELSE /\ loads' = [loads EXCEPT ![s].pc = "json"]
          /\ lastOp' = UrlOp(loads[s], Pending)
          /\ notifyLog' = <<>>
          /\ externalProviders' =
               IF r.json = "parsed" /\ validateProviderConfig(r.body) = "true"
                  /\ r.body.providers.items # <<>>
               THEN MapSet(externalProviders, Head(r.body.providers.items).provider,
                           Head(r.body.providers.items))
               ELSE externalProviders
          /\ UNCHANGED <<providerLoadCallbacks, liveHandles, spentHandles,
                         unsubscribedSince>> /\ UNCHANGED clientVars

\* fetch settles: it rejects, or resolves with a response whose ok is tested.
FetchSettles(s) ==
  /\ loads[s].pc = "fetch"
  /\ LET r == Serve(loads[s].url) IN
     IF r.net = "down" THEN Rejects(s, NetworkError)
     ELSE IF ~r.ok THEN Rejects(s, FetchFailed(loads[s].url, r.statusText))
     ELSE /\ loads' = [loads EXCEPT ![s].pc = "json"]
          /\ lastOp' = UrlOp(loads[s], Pending)
          /\ notifyLog' = <<>>
          /\ UNCHANGED <<externalProviders, providerLoadCallbacks, liveHandles,
                         spentHandles, unsubscribedSince>> /\ UNCHANGED clientVars

\* A variant in which a key registered while the load was pending keeps its
\* template.
RECURSIVE keepEach(_, _)
keepEach(m, ts) ==
  IF ts = <<>> THEN m
  ELSE keepEach(MapSetKeepFirst(m, Head(ts).provider, Head(ts)), Tail(ts))
JsonSettlesKeepExisting(s) ==
  /\ loads[s].pc = "json"
  /\ LET r == Serve(loads[s].url) IN
     IF r.json = "malformed" THEN Rejects(s, SyntaxError)
     ELSE LET d == loadProvidersFromConfig(externalProviders, providerLoadCallbacks, r.body)
          IN  /\ externalProviders' = IF d.result = Ok
                                      THEN keepEach(externalProviders, r.body.providers.items)
                                      ELSE d.map
              /\ notifyLog' = d.log
              /\ lastOp' = UrlOp(loads[s], d.result)
              /\ loads' = [loads EXCEPT ![s] = Idle]
              /\ UNCHANGED <<providerLoadCallbacks, liveHandles, spentHandles,
                             unsubscribedSince>> /\ UNCHANGED clientVars

\* response.json() settles: it rejects, or the body is validated and registered.
JsonSettles(s) ==
  /\ loads[s].pc = "json"
  /\ LET r == Serve(loads[s].url) IN
     IF r.json = "malformed" THEN Rejects(s, SyntaxError)
     ELSE LET d == loadProvidersFromConfig(externalProviders, providerLoadCallbacks, r.body)
          IN  /\ externalProviders' = d.map
              /\ notifyLog' = d.log
              /\ lastOp' = UrlOp(loads[s], d.result)
              /\ loads' = [loads EXCEPT ![s] = Idle]
              /\ Notified(d)
              /\ UNCHANGED clientVars

NextUrl ==
  \/ \E url \in Urls : LoadProvidersFromUrl(url)
  \/ \E s \in 1..MaxLoads : FetchSettles(s)
  \/ \E s \in 1..MaxLoads : JsonSettles(s)
  \/ RegisterProvider(A2)
  \/ UnregisterProvider(Str("p1"))
  \/ ClearAll
  \/ liveHandles["f"] = 0 /\ OnProvidersChanged("f")

SpecUrl == Init /\ [][NextUrl]_vars

\* Loads of both kinds, one at a time, that succeed (with two templates, one,
\* none) or fail (rejected bundle, status, transport, parse), with listeners
\* coming and going in between.
LoadConfigs ==
  {NullConfig, Config(NoArray, Str("1.0")), Config(Array(<<>>), Undef),
   Config(Array(<<A1, B1>>), Str("1.0")), Config(Array(<<A2, NoUrl>>), Str("1.0")),
   Config(Array(<<A1, NullEl>>), Undef)}
LoadUrls ==
  {"https://cfg/a", "https://cfg/empty", "https://cfg/invalid", "https://cfg/null",
   "https://cfg/missing", "https://cfg/html", "https://cfg/down"}
NextLoads ==
  \/ \E c \in LoadConfigs : LoadProvidersFromConfig(c)
  \/ \E url \in LoadUrls : FreeSlots = 1..MaxLoads /\ LoadProvidersFromUrl(url)
  \/ \E s \in 1..MaxLoads : FetchSettles(s)
  \/ \E s \in 1..MaxLoads : JsonSettles(s)
  \/ \E cb \in Callbacks : liveHandles[cb] = 0 /\ OnProvidersChanged(cb)
  \/ \E cb \in Callbacks : Unsubscribe(cb)

SpecLoads == Init /\ [][NextLoads]_vars

\* The queries between mutations, and a caller working on the array that
\* getRegisteredProviders() gave it.
NextQueries ==
  \/ \E t \in ValidTemplates : RegisterProvider(t)
  \/ UnregisterProvider(Str("p1"))
  \/ ClearAll
  \/ \E id \in Keys : GetProvider(id)
  \/ \E id \in Keys : HasProvider(id)
  \/ GetRegisteredProviders
  \/ \E t \in {A2, B1} : PushHeld(t)
  \/ PopHeld
  \/ liveHandles["f"] = 0 /\ OnProvidersChanged("f")

SpecQueries == Init /\ [][NextQueries]_vars

\* Direct registration of templates that the loaders' validation rejects.
Rejected == {NoUrl, NoSettings, NumKey}

NextUnchecked ==
  \/ \E t \in Rejected \cup {A1} : RegisterProvider(t)
  \/ \E ts \in SeqsUpTo(Rejected \cup {B1}, MaxBundle) : RegisterProviders(ts)
  \/ \E id \in {Str("p1"), Str("p2")} : UnregisterProvider(id)
  \/ \E cb \in {"f", "boom"} : liveHandles[cb] = 0 /\ OnProvidersChanged(cb)
  \/ Unsubscribe("f")

SpecUnchecked == Init /\ [][NextUnchecked]_vars

(***************************************************************************)
(* ImgBBService.  uploadFile is async: it suspends at fileToBase64 (for a   *)
(* File), at fetch and at response.json().  `requests` is every fetch call  *)
(* made so far (URL and method; the FormData passed as body is the `form`  *)
(* of the call), `uploads` the calls that have not settled yet.             *)
(***************************************************************************)
baseUrl == "https://api.imgbb.com/1/upload"
\* import.meta.env.VITE_IMGBB_API_KEY of a build that sets it.
EnvKey == "env-key"
ApiKeys == {"", EnvKey}

NotConfigured == Error(<<"ImgBB API key is not configured">>)
UploadFailed(statusText) == Error(<<"ImgBB upload failed: ", statusText>>)
UploadUnsuccessful == Error(<<"ImgBB upload failed">>)
ReaderError == [kind |-> "ProgressEvent", message |-> <<"error">>]

\* Number.prototype.toString of a non-negative integer.
Digits == <<"0", "1", "2", "3", "4", "5", "6", "7", "8", "9">>
RECURSIVE toString(_)
toString(n) ==
  IF n < 10 THEN Digits[n + 1] ELSE toString(n \div 10) \o Digits[(n % 10) + 1]

\* String.prototype.split(','), on the chunks of a string.
RECURSIVE split(_, _)
split(chunks, field) ==
  IF chunks = <<>> THEN <<field>>
  ELSE IF Head(chunks) = "," THEN <<field>> \o split(Tail(chunks), "")
  ELSE split(Tail(chunks), field \o Head(chunks))

\* reader.result.split(',')[1]; a missing element reads as undefined, which
\* FormData.append turns into the string "undefined".
fileToBase64(file) ==
  LET parts == split(file.dataUrl, "") IN
  IF Len(parts) >= 2 THEN parts[2] ELSE "undefined"

Field(name, value) == [name |-> name, value |-> value]

\* The fields appended after `key`: image, then name and expiration when truthy.
appendRest(form, image, options) ==
  form \o <<Field("image", image)>>
       \o (IF options.name # <<>> /\ options.name[1] # ""
           THEN <<Field("name", options.name[1])>> ELSE <<>>)
       \o (IF options.expiration # <<>> /\ options.expiration[1] # 0
           THEN <<Field("expiration", toString(options.expiration[1]))>> ELSE <<>>)

(***************************************************************************)
(* PollinationsService.  An optional property of an options object is <<>>  *)
(* when absent and <<v>> when present.                                      *)
(***************************************************************************)
NoImageOptions ==
  [model |-> <<>>, width |-> <<>>, height |-> <<>>, seed |-> <<>>, enhance |-> <<>>,
   negative_prompt |-> <<>>, nologo |-> <<>>, safe |-> <<>>, quality |-> <<>>,
   transparent |-> <<>>, guidance_scale |-> <<>>]
NoVideoOptions ==
  [model |-> <<>>, duration |-> <<>>, aspectRatio |-> <<>>, audio |-> <<>>,
   referenceImage |-> <<>>]
NoTextOptions ==
  [model |-> <<>>, temperature |-> <<>>, stream |-> <<>>, system |-> <<>>, seed |-> <<>>]

\* if (v) params.append(name, v), for a string, a number and a boolean.
strParam(name, v) == IF v # <<>> /\ v[1] # "" THEN <<Field(name, v[1])>> ELSE <<>>
numParam(name, v) == IF v # <<>> /\ v[1] # 0 THEN <<Field(name, toString(v[1]))>> ELSE <<>>
boolParam(name, v) == IF v # <<>> /\ v[1] THEN <<Field(name, "true")>> ELSE <<>>

imageParams(o) ==
  strParam("model", o.model) \o numParam("width", o.width)
    \o numParam("height", o.height) \o numParam("seed", o.seed)
    \o boolParam("enhance", o.enhance) \o strParam("negative_prompt", o.negative_prompt)
    \o boolParam("nologo", o.nologo) \o boolParam("safe", o.safe)
    \o strParam("quality", o.quality) \o boolParam("transparent", o.transparent)
    \o numParam("guidance_scale", o.guidance_scale)

videoParams(o) ==
  strParam("model", o.model) \o numParam("duration", o.duration)
    \o strParam("aspectRatio", o.aspectRatio) \o boolParam("audio", o.audio)
    \o strParam("image", o.referenceImage)

\* encodeURIComponent, on the characters of a prompt.
RECURSIVE encodeURIComponent(_)
encodeURIComponent(chars) ==
  IF chars = <<>> THEN ""
  ELSE (CASE Head(chars) = " " -> "%20"
          [] Head(chars) = "/" -> "%2F"
          [] Head(chars) = "?" -> "%3F"
          [] Head(chars) = "&" -> "%26"
          [] OTHER -> Head(chars)) \o encodeURIComponent(Tail(chars))

\* `${baseUrl}/<path>?${params.toString()}`, kept in its parts.
Url(base, path, query) == [base |-> base, path |-> path, query |-> query]

\* headers['Authorization'] = `Bearer ${apiKey}` when a key is held.
authHeaders(key) ==
  IF key # "" THEN <<Field("Authorization", "Bearer " \o key)>> ELSE <<>>

\* A variant that sends a temperature the caller did not give.
textBodyDefaultTemperature(messages, o) ==
  <<Field("model", IF o.model # <<>> /\ o.model[1] # "" THEN <<o.model[1]>> ELSE <<"openai">>),
    Field("messages", <<messages>>),
    Field("temperature", IF o.temperature # <<>> THEN <<toString(o.temperature[1])>> ELSE <<"1">>),
    Field("stream", IF o.stream # <<>> /\ o.stream[1] THEN <<"true">> ELSE <<"false">>)>>

\* The body object of generateText and JSON.stringify of it, which leaves out
\* the members whose value is undefined.
textBody(messages, o) ==
  <<Field("model", IF o.model # <<>> /\ o.model[1] # "" THEN <<o.model[1]>> ELSE <<"openai">>),
    Field("messages", <<messages>>),
    Field("temperature", IF o.temperature # <<>> THEN <<toString(o.temperature[1])>> ELSE <<>>),
    Field("stream", IF o.stream # <<>> /\ o.stream[1] THEN <<"true">> ELSE <<"false">>)>>
    \o (IF o.system # <<>> /\ o.system[1] # "" THEN <<Field("system", <<o.system[1]>>)>> ELSE <<>>)
    \o (IF o.seed # <<>> /\ o.seed[1] # 0
        THEN <<Field("seed", <<toString(o.seed[1])>>)>> ELSE <<>>)
RECURSIVE stringify(_)
stringify(members) ==
  IF members = <<>> THEN <<>>
  ELSE (IF Head(members).value = <<>> THEN <<>>
        ELSE <<Field(Head(members).name, Head(members).value[1])>>)
       \o stringify(Tail(members))

Request(url, method, headers, body) ==
  [url |-> url, method |-> method, headers |-> headers, body |-> body]

imageRequest(svc, prompt, o) ==
  Request(Url(svc.baseUrl, <<"image", encodeURIComponent(prompt)>>, imageParams(o)),
          "GET", authHeaders(svc.apiKey), <<>>)
videoRequest(svc, prompt, o) ==
  Request(Url(svc.baseUrl, <<"image", encodeURIComponent(prompt)>>, videoParams(o)),
          "GET", authHeaders(svc.apiKey), <<>>)
textRequest(svc, messages, o) ==
  Request(Url(svc.baseUrl, <<"v1", "chat", "completions">>, <<>>), "POST",
          <<Field("Content-Type", "application/json")>> \o authHeaders(svc.apiKey),
          stringify(textBody(messages, o)))
textModelsRequest(svc) ==
  Request(Url(svc.baseUrl, <<"v1", "models">>, <<>>), "GET", authHeaders(svc.apiKey), <<>>)
imageModelsRequest(svc) ==
  Request(Url(svc.baseUrl, <<"image", "models">>, <<>>), "GET", authHeaders(svc.apiKey), <<>>)

\* The message each method throws on a response that is not ok.
failurePrefix(op) ==
  CASE op = "generateImage" -> "Image generation failed: "
    [] op = "generateVideo" -> "Video generation failed: "
    [] op = "generateText" -> "Text generation failed: "
    [] op = "getTextModels" -> "Failed to fetch models: "
    [] op = "getImageModels" -> "Failed to fetch image models: "

\* What may come back for a request of the generation service.
GenResponse(net, ok, statusText, body) ==
  [net |-> net, ok |-> ok, statusText |-> statusText, body |-> body]
GenResponses ==
  {GenResponse("down", FALSE, "", ""),
   GenResponse("up", FALSE, "Too Many Requests", ""),
   GenResponse("up", TRUE, "OK", "malformed"),
   GenResponse("up", TRUE, "OK", "empty"),
   GenResponse("up", TRUE, "OK", "content")}
BodyError == [kind |-> "TypeError", message |-> <<"Failed to read body">>]

FreeCalls == {s \in 1..MaxCalls : genCalls[s].pc = "idle"}
GenOp(call, args, result, ret) ==
  [Op(call.op, args, NullConfig, Undef, call.via, call.pc, result)
     EXCEPT !.fetches = call.fetches, !.ret = ret]
genFrame ==
  <<externalProviders, providerLoadCallbacks, liveHandles, spentHandles,
    unsubscribedSince, loads, held, apiKey, requests, uploads, multi>>

\* useAIGeneration around a service call: what the caller of the hook's
\* function gets, and the hook's state after catch and finally.  generateText
\* and uploadFile rethrow, the others return {error: message}.
hookOutcome(call, result, ret) ==
  IF call.via = "" THEN [result |-> result, ret |-> ret]
  ELSE IF result = Ok THEN [result |-> Ok, ret |-> ret]
  ELSE IF call.op = "generateText" THEN [result |-> result, ret |-> <<>>]
  ELSE [result |-> Ok, ret |-> <<[error |-> result.message]>>]
hookSettled(call, result) ==
  IF call.via = "" THEN hook
  ELSE [isGenerating |-> FALSE,
        error |-> IF result = Ok THEN hook.error ELSE <<result.message>>]

\* A method of the service is called: the request is built from the fields
\* held now, fetch is issued and the call suspends.
Call(op, args, req, via) ==
  /\ FreeCalls # {}
  /\ Len(genRequests) < MaxRequests
  /\ LET s == CHOOSE x \in FreeCalls : \A y \in FreeCalls : x <= y
         c == [NoCall EXCEPT !.pc = "fetch", !.op = op, !.via = via, !.fetches = 1]
     IN  /\ genCalls' = [genCalls EXCEPT ![s] = c]
         /\ lastOp' = GenOp([c EXCEPT !.pc = "call"], args, Pending, <<>>)
  /\ genRequests' = Append(genRequests, req)
  /\ hook' = IF via = "" THEN hook ELSE [isGenerating |-> TRUE, error |-> <<>>]
  /\ notifyLog' = <<>>
  /\ UNCHANGED poll /\ UNCHANGED genFrame

GenerateImage(prompt, o) ==
  Call("generateImage", <<o>>, imageRequest(poll, prompt, o), "")
GenerateVideo(prompt, o) ==
  Call("generateVideo", <<o>>, videoRequest(poll, prompt, o), "")
GenerateText(messages, o) ==
  Call("generateText", <<o>>, textRequest(poll, messages, o), "")
GetTextModels == Call("getTextModels", <<>>, textModelsRequest(poll), "")
GetImageModels == Call("getImageModels", <<>>, imageModelsRequest(poll), "")

\* The call in slot s ends, with an error thrown or a value returned.
CallEnds(s, args, result, ret) ==
  /\ genCalls' = [genCalls EXCEPT ![s] = NoCall]
  /\ LET out == hookOutcome(genCalls[s], result, ret)
     IN  lastOp' = GenOp(genCalls[s], args, out.result, out.ret)
  /\ hook' = hookSettled(genCalls[s], result)
  /\ notifyLog' = <<>>
  /\ UNCHANGED <<poll, genRequests>> /\ UNCHANGED genFrame

\* A variant that issues the request once more after a response that is not ok.
CallFetchSettlesRetry(s, r) ==
  /\ genCalls[s].pc = "fetch"
  /\ IF r.net = "down" THEN CallEnds(s, <<r>>, NetworkError, <<>>)
     ELSE IF ~r.ok /\ genCalls[s].fetches < 2 /\ Len(genRequests) < MaxRequests
     THEN /\ genCalls' = [genCalls EXCEPT ![s].fetches = @ + 1]
          /\ genRequests' = Append(genRequests, genRequests[Len(genRequests)])
          /\ lastOp' = GenOp(genCalls'[s], <<r>>, Pending, <<>>)
          /\ notifyLog' = <<>>
          /\ UNCHANGED <<poll, hook>> /\ UNCHANGED genFrame
     ELSE IF ~r.ok
     THEN CallEnds(s, <<r>>, Error(<<failurePrefix(genCalls[s].op), r.statusText>>), <<>>)
     ELSE /\ genCalls' = [genCalls EXCEPT ![s].pc = "body", ![s].body = r.body]
          /\ lastOp' = GenOp(genCalls[s], <<r>>, Pending, <<>>)
          /\ notifyLog' = <<>>
          /\ UNCHANGED <<poll, genRequests, hook>> /\ UNCHANGED genFrame

\* fetch settles with r: it rejects, or resolves with a response whose ok is
\* tested.
CallFetchSettles(s, r) ==
  /\ genCalls[s].pc = "fetch"
  /\ IF r.net = "down" THEN CallEnds(s, <<r>>, NetworkError, <<>>)
     ELSE IF ~r.ok
     THEN CallEnds(s, <<r>>, Error(<<failurePrefix(genCalls[s].op), r.statusText>>), <<>>)
     ELSE /\ genCalls' = [genCalls EXCEPT ![s].pc = "body", ![s].body = r.body]
          /\ lastOp' = GenOp(genCalls[s], <<r>>, Pending, <<>>)
          /\ notifyLog' = <<>>
          /\ UNCHANGED <<poll, genRequests, hook>> /\ UNCHANGED genFrame

\* response.blob() or response.json() settles; generateText returns
\* data.choices?.[0]?.message?.content || ''.
CallBodySettles(s) ==
  /\ genCalls[s].pc = "body"
  /\ IF genCalls[s].body = "malformed"
     THEN CallEnds(s, <<>>, IF genCalls[s].op \in {"generateImage", "generateVideo"}
                            THEN BodyError ELSE SyntaxError, <<>>)
     ELSE CallEnds(s, <<>>, Ok, IF genCalls[s].op = "generateText" /\ genCalls[s].body = "empty"
                                THEN <<"">> ELSE <<genCalls[s].body>>)

\* isConfigured(), setApiKey(apiKey), setBaseUrl(baseUrl)
isConfigured(key) == key # ""
IsConfigured ==
  /\ lastOp' = [Op("pollinations.isConfigured", <<>>, NullConfig, Undef, "", "", Ok)
                  EXCEPT !.ret = <<Boolean(isConfigured(poll.apiKey))>>]
  /\ notifyLog' = <<>>
  /\ UNCHANGED <<poll, genRequests, genCalls, hook>> /\ UNCHANGED genFrame
SetGenApiKeyIfUnset(k) ==
  /\ poll' = [poll EXCEPT !.apiKey = IF @ = "" THEN k ELSE @]
  /\ lastOp' = Op("pollinations.setApiKey", <<k>>, NullConfig, Undef, "", "", Ok)
  /\ notifyLog' = <<>>
  /\ UNCHANGED <<genRequests, genCalls, hook>> /\ UNCHANGED genFrame
SetGenApiKey(k) ==
  /\ poll' = [poll EXCEPT !.apiKey = k]
  /\ lastOp' = Op("pollinations.setApiKey", <<k>>, NullConfig, Undef, "", "", Ok)
  /\ notifyLog' = <<>>
  /\ UNCHANGED <<genRequests, genCalls, hook>> /\ UNCHANGED genFrame
SetBaseUrl(u) ==
  /\ poll' = [poll EXCEPT !.baseUrl = u]
  /\ lastOp' = Op("pollinations.setBaseUrl", <<u>>, NullConfig, Undef, "", "", Ok)
  /\ notifyLog' = <<>>
  /\ UNCHANGED <<genRequests, genCalls, hook>> /\ UNCHANGED genFrame

(***************************************************************************)
(* ImgBBService: the steps of uploadFile, and uploadMultiple.               *)
(***************************************************************************)
\* What may come back for a request: fetch rejects, or resolves with a
\* response (ok or not) whose body parses or not, with success set or not.
UploadResponse(net, ok, statusText, json, success) ==
  [net |-> net, ok |-> ok, statusText |-> statusText, json |-> json, success |-> success]
UploadResponses ==
  {UploadResponse("down", FALSE, "", "parsed", FALSE),
   UploadResponse("up", FALSE, "Bad Request", "parsed", FALSE),
   UploadResponse("up", TRUE, "OK", "malformed", FALSE),
   UploadResponse("up", TRUE, "OK", "parsed", FALSE),
   UploadResponse("up", TRUE, "OK", "parsed", TRUE)}

FreeUploads == {s \in 1..MaxUploads : uploads[s].pc = "idle"}
NoUploadPending == \A s \in 1..MaxUploads : uploads[s].pc = "idle"
Reading == {s \in 1..MaxUploads : uploads[s].pc = "reading"}

UploadOp(step, u, result) ==
  [Op(step, <<>>, NullConfig, Undef, "", u.url, result) EXCEPT !.fetches = u.fetches]

uploadFrame ==
  <<externalProviders, providerLoadCallbacks, liveHandles, spentHandles,
    unsubscribedSince, loads, held, poll, genRequests, genCalls, hook>>
\* What the end of an uploadFile call leaves alone whoever awaits it.
settleFrame ==
  <<externalProviders, providerLoadCallbacks, liveHandles, spentHandles,
    unsubscribedSince, loads, held, poll>>

\* fetch(this.apiKey, {method: 'POST', body: formData}), and the call suspends.
Fetch(s, u, image, step) ==
  LET sent == [u EXCEPT !.pc = "fetch", !.fetches = @ + 1,
                        !.form = appendRest(u.form, image, u.options),
                        !.url = apiKey]
  IN  /\ uploads' = [uploads EXCEPT ![s] = sent]
      /\ requests' = Append(requests, [url |-> sent.url, method |-> "POST"])
      /\ lastOp' = UploadOp(step, sent, Pending)

\* What a successful uploadFile call returns: the parsed response to the
\* request it sent.
UploadResult(u) == [success |-> TRUE, request |-> u.form]
\* result.data.url of a successful response.
DataUrl == "https://i.ibb.co/ref.png"
Reference == "generateVideoWithReference"

\* What the caller of the function of useAIGeneration that awaited the call
\* gets: uploadFile rethrows, generateVideoWithReference returns {error}.
uploadOutcome(u, result) ==
  IF u.via = Reference /\ result # Ok
  THEN [result |-> Ok, ret |-> <<[error |-> result.message]>>]
  ELSE [result |-> result, ret |-> <<>>]

\* A variant of generateVideoWithReference that goes on to generate the video
\* whether the upload succeeded or not.
AwaiterGeneratesAnyway(u, result) ==
  IF u.via = Reference
  THEN /\ FreeCalls # {}
       /\ Len(genRequests) < MaxRequests
       /\ LET c == CHOOSE x \in FreeCalls : \A y \in FreeCalls : x <= y
              o == [u.then[1].options EXCEPT !.referenceImage =
                                               IF result = Ok THEN <<DataUrl>> ELSE <<>>]
          IN  /\ genCalls' = [genCalls EXCEPT ![c] =
                                [NoCall EXCEPT !.pc = "fetch", !.op = "generateVideo",
                                               !.via = Reference, !.fetches = 1]]
              /\ genRequests' = Append(genRequests, videoRequest(poll, u.then[1].prompt, o))
       /\ hook' = hook
  ELSE /\ hook' = IF u.via = "" THEN hook
                  ELSE [isGenerating |-> FALSE,
                        error |-> IF result = Ok THEN hook.error ELSE <<result.message>>]
       /\ UNCHANGED <<genCalls, genRequests>>

\* The function of useAIGeneration awaiting the call, if any, goes on:
\* uploadFile ends (catch sets the error, finally clears isGenerating);
\* generateVideoWithReference ends the same way when the upload failed, and
\* otherwise calls generateVideo with referenceImage: uploadResult.data.url,
\* which issues its request and suspends.
Awaiter(u, result) ==
  IF u.via = Reference /\ result = Ok
  THEN /\ FreeCalls # {}
       /\ Len(genRequests) < MaxRequests
       /\ LET c == CHOOSE x \in FreeCalls : \A y \in FreeCalls : x <= y
              o == [u.then[1].options EXCEPT !.referenceImage = <<DataUrl>>]
          IN  /\ genCalls' = [genCalls EXCEPT ![c] =
                                [NoCall EXCEPT !.pc = "fetch", !.op = "generateVideo",
                                               !.via = Reference, !.fetches = 1]]
              /\ genRequests' = Append(genRequests, videoRequest(poll, u.then[1].prompt, o))
       /\ hook' = hook
  ELSE /\ hook' = IF u.via = "" THEN hook
                  ELSE [isGenerating |-> FALSE,
                        error |-> IF result = Ok THEN hook.error ELSE <<result.message>>]
       /\ UNCHANGED <<genCalls, genRequests>>

\* One promise of the array uploadMultiple hands to Promise.all: the slot its
\* uploadFile call runs in, and how it settled.
Entry(slot, state, error, result) ==
  [slot |-> slot, state |-> state, error |-> error, result |-> result]

\* A variant that resolves with the responses gathered so far when a promise
\* of the array rejects.
promiseAllSettledSoFar(m, i) ==
  IF m.pc # "pending" THEN m
  ELSE IF m.entries[i].state = "rejected"
  THEN [m EXCEPT !.pc = "fulfilled",
                 !.ret = <<[j \in {k \in 1..Len(m.entries) : m.entries[k].state = "fulfilled"}
                              |-> m.entries[j].result[1]]>>]
  ELSE IF \A j \in 1..Len(m.entries) : m.entries[j].state = "fulfilled"
  THEN [m EXCEPT !.pc = "fulfilled",
                 !.ret = <<[j \in 1..Len(m.entries) |-> m.entries[j].result[1]]>>]
  ELSE m

\* Promise.all, when the i-th promise of the array has settled: the first
\* rejection rejects the whole with its reason; when every promise has
\* fulfilled the whole fulfils with the values in the order of the array;
\* once the whole has settled nothing changes it.
promiseAll(m, i) ==
  IF m.pc # "pending" THEN m
  ELSE IF m.entries[i].state = "rejected"
  THEN [m EXCEPT !.pc = "rejected", !.error = m.entries[i].error]
  ELSE IF \A j \in 1..Len(m.entries) : m.entries[j].state = "fulfilled"
  THEN [m EXCEPT !.pc = "fulfilled",
                 !.ret = <<[j \in 1..Len(m.entries) |-> m.entries[j].result[1]]>>]
  ELSE m

\* The uploadFile call in slot s has settled: the promise of the array made
\* by that call, if any, settles with it.
Settled(s, state, error, result) ==
  LET mine == {i \in 1..Len(multi.entries) :
                 multi.entries[i].slot = s /\ multi.entries[i].state = "pending"}
  IN  IF mine = {} THEN multi
      ELSE LET i == CHOOSE x \in mine : TRUE
           IN  promiseAll([multi EXCEPT !.entries[i] = Entry(s, state, error, result)], i)

\* The call ends by throwing.
UploadRejectsWith(s, step, err, args) ==
  /\ uploads' = [uploads EXCEPT ![s] = NoUpload]
  /\ lastOp' = [UploadOp(step, uploads[s], uploadOutcome(uploads[s], err).result)
                  EXCEPT !.args = args, !.cb = uploads[s].via,
                         !.ret = uploadOutcome(uploads[s], err).ret]
  /\ notifyLog' = <<>>
  /\ multi' = Settled(s, "rejected", <<err>>, <<>>)
  /\ Awaiter(uploads[s], err)
  /\ UNCHANGED <<apiKey, requests>> /\ UNCHANGED settleFrame

UploadRejects(s, step, err) == UploadRejectsWith(s, step, err, <<>>)

\* A variant without the credential test at the top.
UploadFileNoCheck(file, options) ==
  /\ FreeUploads # {}
  /\ Len(requests) + Cardinality(Reading) < MaxRequests
  /\ LET s == CHOOSE x \in FreeUploads : \A y \in FreeUploads : x <= y
         u == [NoUpload EXCEPT !.file = file, !.options = options,
                               !.form = <<Field("key", apiKey)>>]
     IN  IF file.kind = "string"
         THEN Fetch(s, u, file.text, "uploadFile")
         ELSE /\ uploads' = [uploads EXCEPT ![s] = [u EXCEPT !.pc = "reading"]]
              /\ lastOp' = UploadOp("uploadFile", u, Pending)
              /\ requests' = requests
  /\ notifyLog' = <<>>
  /\ UNCHANGED apiKey /\ UNCHANGED uploadFrame /\ UNCHANGED multi

\* The call of uploadFile, up to its first await.
UploadFile(file, options) ==
  IF apiKey = ""
  THEN /\ lastOp' = UploadOp("uploadFile", NoUpload, NotConfigured)
       /\ notifyLog' = <<>>
       /\ UNCHANGED <<apiKey, requests, uploads>> /\ UNCHANGED uploadFrame /\ UNCHANGED multi
  ELSE /\ FreeUploads # {}
       /\ Len(requests) + Cardinality(Reading) < MaxRequests
       /\ LET s == CHOOSE x \in FreeUploads : \A y \in FreeUploads : x <= y
              u == [NoUpload EXCEPT !.file = file, !.options = options,
                                    !.form = <<Field("key", apiKey)>>]
          IN  IF file.kind = "string"
              THEN Fetch(s, u, file.text, "uploadFile")
              ELSE /\ uploads' = [uploads EXCEPT ![s] = [u EXCEPT !.pc = "reading"]]
                   /\ lastOp' = UploadOp("uploadFile", u, Pending)
                   /\ requests' = requests
       /\ notifyLog' = <<>>
       /\ UNCHANGED apiKey /\ UNCHANGED uploadFrame /\ UNCHANGED multi

\* fileToBase64 settles: the reader failed, or the call goes on to fetch.
ReaderSettles(s) ==
  /\ uploads[s].pc = "reading"
  /\ IF ~uploads[s].file.readable
     THEN UploadRejects(s, "uploadFile.read", ReaderError)
     ELSE /\ Fetch(s, uploads[s], fileToBase64(uploads[s].file), "uploadFile.read")
          /\ notifyLog' = <<>>
          /\ UNCHANGED apiKey /\ UNCHANGED uploadFrame /\ UNCHANGED multi

\* fetch settles with r: it rejects, or resolves with a response whose ok is
\* tested.
UploadFetchSettles(s, r) ==
  /\ uploads[s].pc = "fetch"
  /\ IF r.net = "down" THEN UploadRejectsWith(s, "uploadFile.fetch", NetworkError, <<r>>)
     ELSE IF ~r.ok
     THEN UploadRejectsWith(s, "uploadFile.fetch", UploadFailed(r.statusText), <<r>>)
     ELSE /\ uploads' = [uploads EXCEPT ![s].pc = "json",
                                        ![s].body = IF r.json = "malformed" THEN "malformed"
                                                    ELSE IF r.success THEN "success"
                                                    ELSE "failure"]
          /\ lastOp' = [UploadOp("uploadFile.fetch", uploads[s], Pending)
                          EXCEPT !.args = <<r>>]
          /\ notifyLog' = <<>>
          /\ UNCHANGED <<apiKey, requests>> /\ UNCHANGED uploadFrame /\ UNCHANGED multi

\* response.json() settles: it rejects, or result.success is tested.
UploadJsonSettles(s) ==
  /\ uploads[s].pc = "json"
  /\ IF uploads[s].body = "malformed" THEN UploadRejects(s, "uploadFile.json", SyntaxError)
     ELSE IF uploads[s].body = "failure"
     THEN UploadRejects(s, "uploadFile.json", UploadUnsuccessful)
     ELSE /\ uploads' = [uploads EXCEPT ![s] = NoUpload]
          /\ lastOp' = [UploadOp("uploadFile.json", uploads[s], Ok)
                          EXCEPT !.cb = uploads[s].via]
          /\ notifyLog' = <<>>
          /\ multi' = Settled(s, "fulfilled", <<>>, <<UploadResult(uploads[s])>>)
          /\ Awaiter(uploads[s], Ok)
          /\ UNCHANGED <<apiKey, requests>> /\ UNCHANGED settleFrame

\* uploadFile(file, options) up to its first await, as the slot it leaves: it
\* has thrown (no slot), or waits for the reader, or has issued its fetch.
Started(file, options) ==
  LET u == [NoUpload EXCEPT !.file = file, !.options = options,
                            !.form = <<Field("key", apiKey)>>]
  IN  IF file.kind = "string"
      THEN [u EXCEPT !.pc = "fetch", !.fetches = @ + 1,
                     !.form = appendRest(u.form, file.text, u.options),
                     !.url = apiKey]
      ELSE [u EXCEPT !.pc = "reading"]

\* Promise.all over the array as it stands when uploadMultiple returns.
RECURSIVE promiseAllFrom(_, _)
promiseAllFrom(m, i) ==
  IF i > Len(m.entries) THEN m
  ELSE promiseAllFrom(IF m.entries[i].state = "pending" THEN m ELSE promiseAll(m, i), i + 1)

\* uploadMultiple(files, options): files.map calls uploadFile for each file in
\* turn, each up to its first await, and Promise.all waits for them all.
UploadMultiple(files, options) ==
  /\ NoUploadPending
  /\ multi.pc # "pending"
  /\ Len(files) <= MaxUploads
  /\ Len(requests) + Len(files) <= MaxRequests
  /\ LET configured == apiKey # ""
         sent == [i \in 1..Len(files) |-> Started(files[i], options)]
         entries == [i \in 1..Len(files) |->
                       IF configured THEN Entry(i, "pending", <<>>, <<>>)
                       ELSE Entry(0, "rejected", <<NotConfigured>>, <<>>)]
         all == [NoMulti EXCEPT !.pc = "pending", !.files = files, !.entries = entries]
         fetched == {i \in 1..Len(files) : configured /\ sent[i].pc = "fetch"}
     IN  /\ uploads' = [s \in 1..MaxUploads |->
                          IF configured /\ s <= Len(files) THEN sent[s] ELSE uploads[s]]
         /\ requests' = requests \o
                [k \in 1..Cardinality(fetched) |->
                   [url |-> apiKey, method |-> "POST"]]
         /\ multi' = IF files = <<>> THEN [all EXCEPT !.pc = "fulfilled", !.ret = <<<<>>>>]
                     ELSE promiseAllFrom(all, 1)
         /\ lastOp' = Op("uploadMultiple", <<files, options>>, NullConfig, Undef, "", "", Pending)
  /\ notifyLog' = <<>>
  /\ UNCHANGED apiKey /\ UNCHANGED uploadFrame

SetApiKey(k) ==
  /\ apiKey' = k
  /\ lastOp' = Op("setApiKey", <<k>>, NullConfig, Undef, "", "", Ok)
  /\ notifyLog' = <<>>
  /\ UNCHANGED <<requests, uploads>> /\ UNCHANGED uploadFrame /\ UNCHANGED multi

\* ImgBBService.isConfigured()
UploadIsConfigured ==
  /\ lastOp' = [Op("isConfigured", <<>>, NullConfig, Undef, "", "", Ok)
                  EXCEPT !.ret = <<Boolean(apiKey # "")>>]
  /\ notifyLog' = <<>>
  /\ UNCHANGED <<apiKey, requests, uploads>> /\ UNCHANGED uploadFrame /\ UNCHANGED multi

\* The service after construction: the credential is the build's environment
\* value, or '' when there is none.
InitUpload ==
  /\ externalProviders = <<>>
  /\ providerLoadCallbacks = <<>>
  /\ liveHandles = [c \in Listeners |-> 0]
  /\ spentHandles = {}
  /\ unsubscribedSince = {}
  /\ notifyLog = <<>>
  /\ lastOp = Op("init", <<>>, NullConfig, Undef, "", "", Ok)
  /\ loads = [s \in 1..MaxLoads |-> Idle]
  /\ held = NoArrayHeld
  /\ apiKey \in ApiKeys
  /\ requests = <<>>
  /\ uploads = [s \in 1..MaxUploads |-> NoUpload]
  /\ poll = NewService("")
  /\ genRequests = <<>>
  /\ genCalls = [s \in 1..MaxCalls |-> NoCall]
  /\ hook = NewHook
  /\ multi = NoMulti

\* The calls made: each kind of file, each set of options.
Calls ==
  {<<StringFile("AAAA"), NoOptions>>,
   <<StringFile("AAAA"), Options(<<"">>, <<0>>)>>,
   <<BlobFile(<<"data:image/png;base64", ",", "BBBB">>), Options(<<"pic">>, <<600>>)>>,
   <<Unreadable, NoOptions>>}

NextUpload ==
  \/ \E c \in Calls : UploadFile(c[1], c[2])
  \/ \E s \in 1..MaxUploads : ReaderSettles(s)
  \/ \E s \in 1..MaxUploads, r \in UploadResponses : UploadFetchSettles(s, r)
  \/ \E s \in 1..MaxUploads : UploadJsonSettles(s)
  \/ \E k \in ApiKeys : SetApiKey(k)

SpecUpload == InitUpload /\ [][NextUpload]_vars

\* uploadMultiple over a few arrays of files, the uploads settling in any order.
FileLists ==
  {<<>>,
   <<StringFile("AAAA")>>,
   <<StringFile("AAAA"), StringFile("BBBB")>>,
   <<BlobFile(<<"data:image/png;base64", ",", "CCCC">>), StringFile("BBBB")>>,
   <<StringFile("AAAA"), Unreadable>>}
NextMultiple ==
  \/ \E files \in FileLists : UploadMultiple(files, NoOptions)
  \/ \E s \in 1..MaxUploads : ReaderSettles(s)
  \/ \E s \in 1..MaxUploads, r \in UploadResponses : UploadFetchSettles(s, r)
  \/ \E s \in 1..MaxUploads : UploadJsonSettles(s)
  \/ \E k \in ApiKeys : SetApiKey(k)

SpecMultiple == InitUpload /\ [][NextMultiple]_vars

\* The inputs of the generation calls: nothing given, every field given, and
\* fields given with the values 0, false and ''.
ImageOptionSets ==
  {NoImageOptions,
   [model |-> <<"flux">>, width |-> <<512>>, height |-> <<768>>, seed |-> <<42>>,
    enhance |-> <<TRUE>>, negative_prompt |-> <<"blur">>, nologo |-> <<TRUE>>,
    safe |-> <<TRUE>>, quality |-> <<"hd">>, transparent |-> <<TRUE>>,
    guidance_scale |-> <<7>>],
   [NoImageOptions EXCEPT !.seed = <<0>>, !.width = <<0>>, !.enhance = <<FALSE>>]}
VideoOptionSets ==
  {NoVideoOptions,
   [model |-> <<"veo">>, duration |-> <<8>>, aspectRatio |-> <<"16:9">>,
    audio |-> <<TRUE>>, referenceImage |-> <<"https://i.ibb.co/ref.png">>]}
TextOptionSets ==
  {NoTextOptions,
   [model |-> <<"gemini">>, temperature |-> <<1>>, stream |-> <<TRUE>>,
    system |-> <<"be brief">>, seed |-> <<7>>],
   [NoTextOptions EXCEPT !.temperature = <<0>>, !.stream = <<FALSE>>]}
Prompt == <<"a", " ", "c", "a", "t", "?">>
Messages == "[{role:user,content:hi}]"
\* import.meta.env.VITE_POLLINATIONS_API_KEY of a build that sets it.
EnvGenKey == "env-poll-key"

InitGen ==
  /\ externalProviders = <<>>
  /\ providerLoadCallbacks = <<>>
  /\ liveHandles = [c \in Listeners |-> 0]
  /\ spentHandles = {}
  /\ unsubscribedSince = {}
  /\ notifyLog = <<>>
  /\ lastOp = Op("init", <<>>, NullConfig, Undef, "", "", Ok)
  /\ loads = [s \in 1..MaxLoads |-> Idle]
  /\ held = NoArrayHeld
  /\ apiKey = ""
  /\ requests = <<>>
  /\ uploads = [s \in 1..MaxUploads |-> NoUpload]
  /\ poll \in {NewService(""), NewService(EnvGenKey)}
  /\ genRequests = <<>>
  /\ genCalls = [s \in 1..MaxCalls |-> NoCall]
  /\ hook = NewHook
  /\ multi = NoMulti

\* The service's five requests, one call at a time.
NoCallPending == \A s \in 1..MaxCalls : genCalls[s].pc = "idle"
NextGen ==
  \/ \E o \in ImageOptionSets : NoCallPending /\ GenerateImage(Prompt, o)
  \/ \E o \in VideoOptionSets : NoCallPending /\ GenerateVideo(Prompt, o)
  \/ \E o \in TextOptionSets : NoCallPending /\ GenerateText(Messages, o)
  \/ NoCallPending /\ GetTextModels
  \/ NoCallPending /\ GetImageModels
  \/ \E s \in 1..MaxCalls, r \in GenResponses : CallFetchSettles(s, r)
  \/ \E s \in 1..MaxCalls : CallBodySettles(s)

SpecGen == InitGen /\ [][NextGen]_vars

\* Every wrapper call of both services, one call at a time, against every
\* response.
Quiet == NoCallPending /\ NoUploadPending
NextWrappers ==
  \/ Quiet /\ GenerateImage(Prompt, NoImageOptions)
  \/ Quiet /\ GenerateVideo(Prompt, NoVideoOptions)
  \/ Quiet /\ GenerateText(Messages, NoTextOptions)
  \/ Quiet /\ GetTextModels
  \/ Quiet /\ GetImageModels
  \/ Quiet /\ UploadFile(StringFile("AAAA"), NoOptions)
  \/ \E k \in ApiKeys : Quiet /\ SetApiKey(k)
  \/ \E s \in 1..MaxCalls, r \in GenResponses : CallFetchSettles(s, r)
  \/ \E s \in 1..MaxCalls : CallBodySettles(s)
  \/ \E s \in 1..MaxUploads, r \in UploadResponses : UploadFetchSettles(s, r)
  \/ \E s \in 1..MaxUploads : UploadJsonSettles(s)

SpecWrappers == InitGen /\ [][NextWrappers]_vars

\* The configuration mutators and isConfigured of both services, and calls
\* made after them.
GenKeys == {"", "key-2"}
BaseUrls == {"https://gen.pollinations.ai", "https://proxy.example"}
NextConfig ==
  \/ \E k \in GenKeys : SetGenApiKey(k)
  \/ \E u \in BaseUrls : SetBaseUrl(u)
  \/ IsConfigured
  \/ \E k \in ApiKeys : SetApiKey(k)
  \/ UploadIsConfigured
  \/ Quiet /\ GetTextModels
  \/ Quiet /\ UploadFile(StringFile("AAAA"), NoOptions)
  \/ \E s \in 1..MaxCalls, r \in GenResponses : CallFetchSettles(s, r)
  \/ \E s \in 1..MaxCalls : CallBodySettles(s)
  \/ \E s \in 1..MaxUploads, r \in UploadResponses : UploadFetchSettles(s, r)
  \/ \E s \in 1..MaxUploads : UploadJsonSettles(s)

SpecConfig == InitGen /\ [][NextConfig]_vars

(***************************************************************************)
(* useAIGeneration: each function sets isGenerating and clears the error,   *)
(* awaits the service, and in catch / finally sets the error and clears     *)
(* isGenerating.                                                            *)
(***************************************************************************)
HookGenerateText(messages, o) ==
  Call("generateText", <<o>>, textRequest(poll, messages, o), "generateText")
HookGenerateImage(prompt, o) ==
  Call("generateImage", <<o>>, imageRequest(poll, prompt, o), "generateImage")
HookGenerateVideo(prompt, o) ==
  Call("generateVideo", <<o>>, videoRequest(poll, prompt, o), "generateVideo")

\* uploadFile and generateVideoWithReference up to their first await, which is
\* imgBBService.uploadFile: without a key that call has thrown already.
HookUpload(via, file, options, then) ==
  /\ IF apiKey = ""
     THEN /\ hook' = [isGenerating |-> FALSE, error |-> <<NotConfigured.message>>]
          /\ LET u == [NoUpload EXCEPT !.via = via]
                 out == uploadOutcome(u, NotConfigured)
             IN  lastOp' = [Op("uploadFile", <<file>>, NullConfig, Undef, via, "call", out.result)
                              EXCEPT !.ret = out.ret]
          /\ UNCHANGED <<requests, uploads>>
     ELSE /\ FreeUploads # {}
          /\ Len(requests) + Cardinality(Reading) < MaxRequests
          /\ LET s == CHOOSE x \in FreeUploads : \A y \in FreeUploads : x <= y
                 u == [Started(file, options) EXCEPT !.via = via, !.then = then]
             IN  /\ uploads' = [uploads EXCEPT ![s] = u]
                 /\ requests' = IF u.pc = "fetch"
                                THEN Append(requests, [url |-> u.url, method |-> "POST"])
                                ELSE requests
                 /\ lastOp' = [Op("uploadFile", <<file>>, NullConfig, Undef, via, "call", Pending)
                                 EXCEPT !.fetches = u.fetches]
          /\ hook' = [isGenerating |-> TRUE, error |-> <<>>]
  /\ notifyLog' = <<>>
  /\ UNCHANGED <<apiKey, multi, genCalls, genRequests>> /\ UNCHANGED settleFrame

HookUploadFile(file, options) == HookUpload("uploadFile", file, options, <<>>)
GenerateVideoWithReference(prompt, referenceFile, options) ==
  HookUpload(Reference, referenceFile, Options(<<"video-reference">>, <<>>),
             <<[prompt |-> prompt, options |-> options]>>)

\* The functions of the hook called while others are still in flight.
ReferenceFiles == {BlobFile(<<"data:image/png;base64", ",", "CCCC">>), Unreadable}
NextHook ==
  \/ HookGenerateText(Messages, NoTextOptions)
  \/ HookGenerateImage(Prompt, NoImageOptions)
  \/ HookGenerateVideo(Prompt, NoVideoOptions)
  \/ HookUploadFile(StringFile("AAAA"), NoOptions)
  \/ SetApiKey(EnvKey)
  \/ \E s \in 1..MaxUploads, r \in UploadResponses : UploadFetchSettles(s, r)
  \/ \E s \in 1..MaxUploads : UploadJsonSettles(s)
  \/ \E s \in 1..MaxCalls, r \in GenResponses : CallFetchSettles(s, r)
  \/ \E s \in 1..MaxCalls : CallBodySettles(s)

SpecHook == InitGen /\ [][NextHook]_vars

\* generateVideoWithReference, one call at a time, with and without a key,
\* the reader, the upload and the generation succeeding or failing.
NextReference ==
  \/ \E f \in ReferenceFiles : Quiet /\ GenerateVideoWithReference(Prompt, f, NoVideoOptions)
  \/ \E k \in ApiKeys : SetApiKey(k)
  \/ \E s \in 1..MaxUploads : ReaderSettles(s)
  \/ \E s \in 1..MaxUploads, r \in UploadResponses : UploadFetchSettles(s, r)
  \/ \E s \in 1..MaxUploads : UploadJsonSettles(s)
  \/ \E s \in 1..MaxCalls, r \in GenResponses : CallFetchSettles(s, r)
  \/ \E s \in 1..MaxCalls : CallBodySettles(s)

SpecReference == InitGen /\ [][NextReference]_vars

(***************************************************************************)
(* Properties.                                                              *)
(***************************************************************************)
Mutations == {"registerProvider", "registerProviders", "unregisterProvider", "clearAll"}
RegisterOps == {"registerProvider", "registerProviders", "loadProvidersFromConfig"}

\* The templates an operation registered.
Registered(op) ==
  IF op.op = "loadProvidersFromConfig"
  THEN IF op.result.kind = "ok" THEN op.config.providers.items ELSE <<>>
  ELSE op.args
RegisteredKeys(op) == {Registered(op)[i].provider : i \in 1..Len(Registered(op))}
\* The last template of ts registered under key k.
LastFor(ts, k) ==
  ts[CHOOSE i \in 1..Len(ts) :
       /\ ts[i].provider = k
       /\ \A j \in 1..Len(ts) : ts[j].provider = k => j <= i]

Subscribed(cb) == SetHas(providerLoadCallbacks, cb)
\* How often the last operation invoked cb.
Times(cb) == Cardinality({i \in 1..Len(notifyLog) : notifyLog[i].cb = cb})
OncePerSubscriber == \A cb \in Callbacks : Times(cb) = IF Subscribed(cb) THEN 1 ELSE 0
SawCurrentMapping ==
  \A i \in 1..Len(notifyLog) : notifyLog[i].seen = getRegisteredProviders(externalProviders)

KeysUnique ==
  \A i, j \in 1..Len(externalProviders) :
    externalProviders[i].key = externalProviders[j].key => i = j

\* C1: the registry holds at most one entry per provider key; after a
\* registration (single, batch or config load) each registered key maps to the
\* most recent template registered under it, and the number of entries grows
\* only by the keys that were not present before.
C1_OneEntryPerKey ==
  /\ [](/\ KeysUnique
        /\ lastOp.op \in RegisterOps =>
             \A k \in RegisteredKeys(lastOp) :
               getProvider(externalProviders, k) = LastFor(Registered(lastOp), k))
  /\ [][lastOp'.op \in RegisterOps =>
          Len(externalProviders') =
            Cardinality(MapKeys(externalProviders) \cup RegisteredKeys(lastOp'))]_vars

\* Two registrations under one key leave one entry, the second.
C1_Witness ==
  /\ lastOp.op = "registerProviders"
  /\ lastOp.args = <<A1, A2>>
  /\ getRegisteredProviders(externalProviders) = <<A2>>

\* C3: registerProviders invokes every subscribed listener exactly once per
\* call, whatever the length of the sequence, and each listener finds all the
\* templates of the sequence already inserted.
C3_OneNotificationPerBatch ==
  lastOp.op = "registerProviders" =>
    /\ OncePerSubscriber
    /\ SawCurrentMapping
    /\ \A k \in RegisteredKeys(lastOp) : hasProvider(externalProviders, k)

C3_Witness ==
  /\ lastOp.op = "registerProviders"
  /\ lastOp.args = <<A1, B1>>
  /\ Len(providerLoadCallbacks) >= 2
  /\ Len(notifyLog) = Len(providerLoadCallbacks)

\* Whether the mutation the last operation asked for is in the mapping.
TookEffect ==
  CASE lastOp.op = "registerProvider" ->
         getProvider(externalProviders, lastOp.id) = lastOp.args[1]
    [] lastOp.op = "registerProviders" ->
         \A k \in RegisteredKeys(lastOp) :
           getProvider(externalProviders, k) = LastFor(lastOp.args, k)
    [] lastOp.op = "unregisterProvider" -> ~hasProvider(externalProviders, lastOp.id)
    [] lastOp.op = "clearAll" -> externalProviders = <<>>
    [] OTHER -> TRUE

\* C5: a listener that throws during a notification does not keep any other
\* subscribed listener from being invoked in that batch, the exception does not
\* leave the mutation call, and the mutation has taken effect.
C5_ListenerIsolation ==
  (lastOp.op \in Mutations /\ \E cb \in Throwing : Subscribed(cb)) =>
    /\ \A cb \in Callbacks : Subscribed(cb) => Times(cb) >= 1
    /\ lastOp.result = Ok
    /\ TookEffect

\* The throwing listener was invoked first, the other one after it.
C5_Witness ==
  /\ lastOp.op \in Mutations
  /\ providerLoadCallbacks = <<"boom", "f">>
  /\ Len(notifyLog) = 2
  /\ notifyLog[1].threw
  /\ notifyLog[2].cb = "f"

\* C6: every mutating operation invokes each subscribed listener exactly once,
\* within the operation, and what a listener reads from the registry in its
\* callback is the mapping after the mutation.
C6_NotifiedAfterMutation ==
  lastOp.op \in Mutations =>
    /\ OncePerSubscriber
    /\ SawCurrentMapping
    /\ TookEffect

C6_Witness ==
  /\ lastOp.op = "registerProvider"
  /\ lastOp.args = <<A1>>
  /\ Len(notifyLog) >= 1
  /\ notifyLog[1].seen = <<A1>>

\* The validation contract as the specification words it.
WellFormed(c) ==
  /\ c.kind = "object"
  /\ c.providers.t = "array"
  /\ \A i \in 1..Len(c.providers.items) :
       LET e == c.providers.items[i] IN
         /\ e.kind \notin {"null", "undefined"}
         /\ e.provider.t = "string"
         /\ e.base_url.t = "string"
         /\ e.settings.t = "array"

\* C2: loadProvidersFromConfig is all-or-nothing: for a bundle with a missing
\* providers field or with at least one element that fails validation, the call
\* fails and the mapping after it is the mapping before it.
C2_AllOrNothing ==
  [][(lastOp'.op = "loadProvidersFromConfig" /\ ~WellFormed(lastOp'.config)) =>
       /\ lastOp'.result.kind # "ok"
       /\ externalProviders' = externalProviders]_vars

\* One valid entry, one without base_url: neither is registered.
C2_Witness ==
  /\ lastOp.op = "loadProvidersFromConfig"
  /\ lastOp.config.providers.items = <<A1, NoUrl>>
  /\ lastOp.result.kind = "Error"
  /\ ~hasProvider(externalProviders, Str("p1"))
  /\ ~hasProvider(externalProviders, Str("p2"))

\* C4 as claimed: every onProvidersChanged call is a subscription of its own, so
\* a callback with a handle that has not been called is still subscribed, and is
\* invoked by the next mutation.
C4_IndependentSubscriptions ==
  \A cb \in Callbacks :
    liveHandles[cb] > 0 =>
      /\ Subscribed(cb)
      /\ lastOp.op \in Mutations => Times(cb) >= 1

\* C4 as amended: the callbacks are a Set keyed by reference.  A callback is in
\* it at most once however often it was subscribed, it is invoked once per
\* mutation, and calling any one of its handles removes it: it is subscribed
\* exactly when no handle of it was called since it was last subscribed.
C4_OneEntryPerCallback ==
  /\ \A i, j \in 1..Len(providerLoadCallbacks) :
       providerLoadCallbacks[i] = providerLoadCallbacks[j] => i = j
  /\ \A cb \in Callbacks :
       Subscribed(cb) <=> (liveHandles[cb] > 0 /\ cb \notin unsubscribedSince)
  /\ lastOp.op \in Mutations => OncePerSubscriber

\* f was subscribed twice, one of the two handles was called, and the mutation
\* that followed did not invoke f.
C4_Witness ==
  /\ lastOp.op \in Mutations
  /\ liveHandles["f"] = 1
  /\ "f" \in unsubscribedSince
  /\ ~Subscribed("f")
  /\ Times("f") = 0

C8_RejectedAsInvalidFormat ==
  (lastOp.op = "loadProvidersFromConfig" /\ ~WellFormed(lastOp.config)) =>
    lastOp.result = Error(<<"Invalid provider configuration format">>)

\* C9: a bundle is accepted exactly when config is non-null, config.providers is
\* a sequence and every element has a string provider, a string base_url and a
\* settings sequence; version, active and the contents of settings play no part.
C9_AcceptsExactlyWellFormed ==
  lastOp.op = "loadProvidersFromConfig" =>
    (lastOp.result.kind = "ok" <=> WellFormed(lastOp.config))

\* Accepted without a version, with active set and a non-empty settings.
C9_Witness ==
  /\ lastOp.op = "loadProvidersFromConfig"
  /\ lastOp.config = Config(Array(<<A2, B1>>), Undef)
  /\ lastOp.result.kind = "ok"
  /\ getRegisteredProviders(externalProviders) = <<A2, B1>>

StatusFails(url) == Serve(url).net = "up" /\ ~Serve(url).ok
Parts(msg) == {msg[i] : i \in 1..Len(msg)}

\* C10: when the GET of loadProvidersFromUrl(url) answers a non-success status,
\* the call rejects with an error whose message names the URL and the status
\* text, after exactly one fetch, and no step of the call changes the mapping.
C10_NonSuccessStatus ==
  /\ []((/\ lastOp.op = "loadProvidersFromUrl"
         /\ StatusFails(lastOp.url)
         /\ lastOp.result # Pending) =>
          /\ lastOp.result.kind = "Error"
          /\ lastOp.url \in Parts(lastOp.result.message)
          /\ Serve(lastOp.url).statusText \in Parts(lastOp.result.message)
          /\ lastOp.fetches = 1)
  /\ [][(lastOp'.op = "loadProvidersFromUrl" /\ StatusFails(lastOp'.url)) =>
          externalProviders' = externalProviders]_vars

\* A 404 while the registry holds a provider.
C10_Witness ==
  /\ lastOp.op = "loadProvidersFromUrl"
  /\ lastOp.url = "https://cfg/missing"
  /\ lastOp.result.kind = "Error"
  /\ lastOp.fetches = 1
  /\ externalProviders # <<>>

\* The response was a success and its body parsed as JSON.
BodyParsed(url) == Serve(url).net = "up" /\ Serve(url).ok /\ Serve(url).json = "parsed"

\* C11: on a success response loadProvidersFromUrl treats the parsed body as
\* loadProvidersFromConfig treats a bundle: a body that fails the validation
\* contract is rejected with "Invalid provider configuration format", and every
\* template of a valid body is registered.
C11_BodyValidatedAsConfig ==
  (/\ lastOp.op = "loadProvidersFromUrl"
   /\ BodyParsed(lastOp.url)
   /\ lastOp.result # Pending) =>
     IF WellFormed(lastOp.config)
     THEN /\ lastOp.result = Ok
          /\ \A i \in 1..Len(lastOp.config.providers.items) :
               LET t == lastOp.config.providers.items[i] IN
                 getProvider(externalProviders, t.provider)
                   = LastFor(lastOp.config.providers.items, t.provider)
     ELSE lastOp.result = Error(<<"Invalid provider configuration format">>)

\* C12: a loadProvidersFromUrl call leaves the mapping and the listeners alone
\* while it is suspended; the one step that registers inserts the whole bundle
\* and notifies once, so no interleaved operation finds a part of a bundle.
C12_NoTornLoad ==
  [][lastOp'.op = "loadProvidersFromUrl" =>
       IF lastOp'.result.kind = "ok"
       THEN /\ \A i \in 1..Len(lastOp'.config.providers.items) :
                 LET t == lastOp'.config.providers.items[i] IN
                   getProvider(externalProviders', t.provider)
                     = LastFor(lastOp'.config.providers.items, t.provider)
            /\ \A cb \in Callbacks :
                 Cardinality({i \in 1..Len(notifyLog') : notifyLog'[i].cb = cb})
                   = IF Subscribed(cb) THEN 1 ELSE 0
       ELSE /\ externalProviders' = externalProviders
            /\ notifyLog' = <<>>]_vars

\* Another call runs while a load of the two-template bundle is suspended in the
\* body parse, and finds none of the bundle registered.
C12_Witness ==
  /\ lastOp.op = "registerProvider"
  /\ \E s \in 1..MaxLoads : loads[s].pc = "json" /\ loads[s].url = "https://cfg/a"
  /\ ~hasProvider(externalProviders, Str("p2"))
  /\ getProvider(externalProviders, Str("p1")) = A2

\* The values of a sequence.
Range(q) == {q[i] : i \in 1..Len(q)}
\* The keys the step into the primed state registers, unregisters or clears.
Touched(op) ==
  CASE op.op \in RegisterOps -> RegisteredKeys(op)
    [] op.op = "unregisterProvider" -> {op.id}
    [] op.op = "clearAll" -> Keys
    [] OTHER -> {}

\* C13: after a template t is registered (alone, or as the last of its key in
\* a batch), getProvider(t.provider) returns t and getRegisteredProviders()
\* contains t, and that stays so until the key is registered again,
\* unregistered or cleared.
C13_RoundTrip ==
  /\ [](lastOp.op \in {"registerProvider", "registerProviders"} =>
          \A k \in RegisteredKeys(lastOp) :
            /\ getProvider(externalProviders, k) = LastFor(lastOp.args, k)
            /\ LastFor(lastOp.args, k) \in Range(getRegisteredProviders(externalProviders)))
  /\ [][\A k \in Keys \ Touched(lastOp') :
          hasProvider(externalProviders, k) =>
            /\ getProvider(externalProviders', k) = getProvider(externalProviders, k)
            /\ getProvider(externalProviders, k)
                 \in Range(getRegisteredProviders(externalProviders'))]_vars

\* A1 is read back as registered after another key was registered and an absent
\* key unregistered.
C13_Witness ==
  /\ lastOp.op = "unregisterProvider"
  /\ lastOp.id = Str("p3")
  /\ getProvider(externalProviders, Str("p1")) = A1
  /\ getRegisteredProviders(externalProviders) = <<A1, NoUrl>>

\* C14: unregisterProvider(id) of an id that is not registered and clearAll()
\* on an empty registry leave the mapping unchanged and still invoke every
\* subscribed listener exactly once; unregisterProvider(id) of a registered id
\* removes that entry only and leaves every other entry unchanged.
C14_RemovalFrame ==
  [][/\ lastOp'.op = "unregisterProvider" =>
          /\ OncePerSubscriber'
          /\ ~hasProvider(externalProviders', lastOp'.id)
          /\ ~hasProvider(externalProviders, lastOp'.id) =>
                externalProviders' = externalProviders
          /\ hasProvider(externalProviders, lastOp'.id) =>
                Len(externalProviders') = Len(externalProviders) - 1
          /\ \A k \in Keys \ {lastOp'.id} :
                getProvider(externalProviders', k) = getProvider(externalProviders, k)
     /\ lastOp'.op = "clearAll" =>
          /\ OncePerSubscriber'
          /\ externalProviders' = <<>>]_vars

\* An id that was never registered has been unregistered from a registry of two
\* entries, and both subscribed listeners were invoked.
C14_Witness ==
  /\ lastOp.op = "unregisterProvider"
  /\ lastOp.id = Str("p3")
  /\ Len(externalProviders) = 2
  /\ Subscribed("f") /\ Subscribed("g")
  /\ Times("f") = 1 /\ Times("g") = 1

\* C15: hasProvider(id) is true exactly when id was the key of a registration
\* (single, batch or successful load) not since followed by
\* unregisterProvider(id) or clearAll(): nothing is registered at the start, a
\* step makes hasProvider(id) true only by registering id, and false only by
\* unregistering id or clearing.
C15_MembershipHistory ==
  /\ [](lastOp.op = "init" => \A id \in Keys : ~hasProvider(externalProviders, id))
  /\ [][\A id \in Keys :
          hasProvider(externalProviders', id) <=>
            IF lastOp'.op \in RegisterOps /\ id \in RegisteredKeys(lastOp') THEN TRUE
            ELSE IF lastOp'.op = "clearAll" THEN FALSE
            ELSE IF lastOp'.op = "unregisterProvider" /\ lastOp'.id = id THEN FALSE
            ELSE hasProvider(externalProviders, id)]_vars

\* p1 and p2 were registered, then p1 unregistered: p1 is gone, p2 still there.
C15_Witness ==
  /\ lastOp.op = "unregisterProvider"
  /\ lastOp.id = Str("p1")
  /\ ~hasProvider(externalProviders, Str("p1"))
  /\ hasProvider(externalProviders, Str("p2"))

Queries == {"getProvider", "hasProvider", "getRegisteredProviders"}

\* C16: getProvider(id) never fails; for an id that is not registered it
\* returns undefined, and it returns a template exactly when hasProvider(id) is
\* true; neither query changes the mapping or invokes a listener.
C16_LookupTotal ==
  /\ [](/\ \A id \in Keys :
             /\ getProvider(externalProviders, id).kind = "object"
                  <=> hasProvider(externalProviders, id)
             /\ ~hasProvider(externalProviders, id) =>
                  getProvider(externalProviders, id) = UndefEl
        /\ lastOp.op = "getProvider" =>
             /\ lastOp.result = Ok
             /\ lastOp.ret = <<getProvider(externalProviders, lastOp.id)>>
             /\ lastOp.ret[1].kind \in {"object", "undefined"}
             /\ lastOp.ret[1].kind = "object" <=> hasProvider(externalProviders, lastOp.id)
        /\ lastOp.op = "hasProvider" =>
             /\ lastOp.result = Ok
             /\ lastOp.ret = <<Boolean(hasProvider(externalProviders, lastOp.id))>>)
  /\ [][lastOp'.op \in {"getProvider", "hasProvider"} =>
          /\ externalProviders' = externalProviders
          /\ providerLoadCallbacks' = providerLoadCallbacks
          /\ notifyLog' = <<>>]_vars

\* getProvider("p2") answered undefined while p1 was registered and a listener
\* subscribed.
C16_Witness ==
  /\ lastOp.op = "getProvider"
  /\ lastOp.id = Str("p2")
  /\ lastOp.ret = <<UndefEl>>
  /\ hasProvider(externalProviders, Str("p1"))
  /\ Subscribed("f")

\* C17: getRegisteredProviders() returns exactly the templates registered at
\* the call (none for an empty registry); what the caller reads from the
\* returned array is not changed by later registry mutations, and pushing onto
\* or popping off the returned array does not change the registry.
C17_Snapshot ==
  /\ [](lastOp.op = "getRegisteredProviders" =>
          /\ HeldItems = MapValues(externalProviders)
          /\ lastOp.ret = HeldItems
          /\ Len(HeldItems) = Cardinality({k \in Keys : hasProvider(externalProviders, k)})
          /\ \A k \in Keys : hasProvider(externalProviders, k) =>
               getProvider(externalProviders, k) \in Range(HeldItems))
  /\ [][/\ lastOp'.op \in Mutations => HeldItems' = HeldItems
        /\ lastOp'.op \in {"push", "pop"} =>
             /\ externalProviders' = externalProviders
             /\ notifyLog' = <<>>
        /\ lastOp'.op = "push" => HeldItems' = Append(HeldItems, lastOp'.ret[1])
        /\ lastOp'.op = "pop" => HeldItems' = SubSeq(HeldItems, 1, Len(HeldItems) - 1)]_vars

\* The caller still reads the two templates of its snapshot after the registry
\* was cleared.
C17_Witness ==
  /\ lastOp.op = "clearAll"
  /\ externalProviders = <<>>
  /\ HeldItems = <<A1, B1>>
  /\ Subscribed("f")

\* C18: registerProvider and registerProviders do not validate and always
\* succeed: a template that validateProviderConfig rejects (no base_url, no
\* settings array, a provider that is not a string) is stored under its
\* `provider` key all the same, and every subscribed listener is invoked
\* exactly once.
C18_NoValidationOnRegister ==
  (/\ lastOp.op \in {"registerProvider", "registerProviders"}
   /\ \E i \in 1..Len(lastOp.args) : ~ElementOk(lastOp.args[i])) =>
     /\ lastOp.result = Ok
     /\ \A i \in 1..Len(lastOp.args) :
          /\ MapHas(externalProviders, lastOp.args[i].provider)
          /\ MapGet(externalProviders, lastOp.args[i].provider)
               = LastFor(lastOp.args, lastOp.args[i].provider)
     /\ OncePerSubscriber

\* A template without a settings array was registered alone and is read back
\* under p1; both listeners were invoked.
C18_Witness ==
  /\ lastOp.op = "registerProvider"
  /\ lastOp.args = <<NoSettings>>
  /\ validateProviderConfig(Config(Array(lastOp.args), Undef)) = "false"
  /\ getProvider(externalProviders, Str("p1")) = NoSettings
  /\ Len(notifyLog) = 2

\* The form the upload endpoint is to get for a call: key and image, name and
\* expiration when given.
FormAsSpecified(key, image, options) ==
  <<Field("key", key), Field("image", image)>>
    \o (IF options.name # <<>> THEN <<Field("name", options.name[1])>> ELSE <<>>)
    \o (IF options.expiration # <<>>
        THEN <<Field("expiration", toString(options.expiration[1]))>> ELSE <<>>)
Payload(file) == IF file.kind = "string" THEN file.text ELSE "BBBB"
InFlight == {s \in 1..MaxUploads : uploads[s].pc \in {"fetch", "json"}}

\* C19: the request uploadFile sends is a POST to the configured upload URL
\* (baseUrl), its form carrying key = the held credential, image = the base64
\* payload, name only when a name was given and expiration only when an
\* expiration was given.
C19_PostToUploadUrl ==
  /\ \A i \in 1..Len(requests) :
       /\ requests[i].url = baseUrl
       /\ requests[i].method = "POST"
  /\ \A s \in InFlight :
       /\ uploads[s].url = baseUrl
       /\ \E k \in ApiKeys \ {""} :
            uploads[s].form = FormAsSpecified(k, Payload(uploads[s].file), uploads[s].options)

\* C20: a call of uploadFile made while the credential is empty fails at once
\* with 'ImgBB API key is not configured', sends no request and starts nothing,
\* whatever setApiKey calls came before.
C20_UnconfiguredFailsFast ==
  [][(lastOp'.op = "uploadFile" /\ apiKey = "") =>
       /\ lastOp'.result = NotConfigured
       /\ requests' = requests
       /\ uploads' = uploads
       /\ apiKey' = ""]_vars

\* The call failed on an empty credential after an earlier call, made while a
\* credential was set, had sent its request.
C20_Witness ==
  /\ lastOp.op = "uploadFile"
  /\ lastOp.result = NotConfigured
  /\ apiKey = ""
  /\ Len(requests) = 1
  /\ InFlight # {}

\* The call step of a generation method: lastOp holds the options, the last
\* request is the one the call issued.
CallStep(ops) == lastOp.op \in ops /\ lastOp.url = "call"
LastRequest == genRequests[Len(genRequests)]
\* The query parameter (or body member) an option field is sent as.
ParamName(f) == IF f = "referenceImage" THEN "image" ELSE f
Names(fields) == {fields[i].name : i \in 1..Len(fields)}
Given(o) == {f \in DOMAIN o : o[f] # <<>>}

\* C21: every option field the caller gives to generateImage or generateVideo,
\* also with a value such as seed 0, width 0 or enhance false, yields its query
\* parameter in the request.
C21_EveryGivenFieldSent ==
  CallStep({"generateImage", "generateVideo"}) =>
    \A f \in Given(lastOp.args[1]) : ParamName(f) \in Names(LastRequest.url.query)

\* C22 as claimed: a field the caller omits has no value in the request, in
\* generateImage, generateVideo and generateText alike.
C22_NeverDefaults ==
  /\ CallStep({"generateImage", "generateVideo"}) =>
       \A f \in DOMAIN lastOp.args[1] \ Given(lastOp.args[1]) :
         ParamName(f) \notin Names(LastRequest.url.query)
  /\ CallStep({"generateText"}) =>
       \A f \in DOMAIN lastOp.args[1] \ Given(lastOp.args[1]) :
         f \notin Names(LastRequest.body)

\* C22, amended: generateImage and generateVideo send no parameter for a field
\* the caller omitted, and generateText sends no temperature, system or seed
\* the caller omitted; an omitted model goes out as 'openai' and an omitted
\* stream as false.
C22_DefaultsModelAndStreamOnly ==
  /\ CallStep({"generateImage", "generateVideo"}) =>
       \A f \in DOMAIN lastOp.args[1] \ Given(lastOp.args[1]) :
         ParamName(f) \notin Names(LastRequest.url.query)
  /\ CallStep({"generateText"}) =>
       LET o == lastOp.args[1]
           b == LastRequest.body
       IN  /\ \A f \in {"temperature", "system", "seed"} \ Given(o) : f \notin Names(b)
           /\ "model" \notin Given(o) => \E i \in 1..Len(b) : b[i] = Field("model", "openai")
           /\ "stream" \notin Given(o) => \E i \in 1..Len(b) : b[i] = Field("stream", "false")

\* generateText was called without options: the body is model 'openai', the
\* messages and stream false.
C22_Witness ==
  /\ CallStep({"generateText"})
  /\ lastOp.args[1] = NoTextOptions
  /\ LastRequest.body = <<Field("model", "openai"), Field("messages", Messages),
                          Field("stream", "false")>>

\* The steps at which a wrapper call's fetch settles: lastOp.args holds the
\* response.
FetchSettled ==
  \/ lastOp.op \in {"generateImage", "generateVideo", "generateText", "getTextModels",
                    "getImageModels"} /\ lastOp.url = "fetch"
  \/ lastOp.op = "uploadFile.fetch"
NotOk == FetchSettled /\ lastOp.args[1].net = "up" /\ ~lastOp.args[1].ok
\* The message texts that read '<Operation> failed: '.
OperationFailed ==
  {"Image generation failed: ", "Video generation failed: ", "Text generation failed: ",
   "ImgBB upload failed: "}
ThrownText(op) == IF op = "uploadFile.fetch" THEN "ImgBB upload failed: " ELSE failurePrefix(op)
SettleSteps == {"fetch", "body"}

\* C23 as claimed: a response that is not ok makes every wrapper call fail
\* with '<Operation> failed: <http status text>' after exactly one request.
C23_OperationFailedForm ==
  NotOk =>
    /\ lastOp.result.kind = "Error"
    /\ Len(lastOp.result.message) = 2
    /\ lastOp.result.message[1] \in OperationFailed
    /\ lastOp.result.message[2] = lastOp.args[1].statusText
    /\ lastOp.fetches = 1

\* C23, amended: a response that is not ok makes the call fail with an error
\* whose message is the method's own text followed by the response's status
\* text ('Image generation failed: ', 'Video generation failed: ', 'Text
\* generation failed: ', 'ImgBB upload failed: ', and for the model listings
\* 'Failed to fetch models: ' and 'Failed to fetch image models: '), after
\* exactly one request: no step in which a fetch or a body settles issues a
\* request.
C23_StatusTextAfterOneRequest ==
  /\ [](NotOk =>
          /\ lastOp.result = Error(<<ThrownText(lastOp.op), lastOp.args[1].statusText>>)
          /\ lastOp.fetches = 1)
  /\ [][(lastOp'.url \in SettleSteps \/ lastOp'.op \in {"uploadFile.fetch", "uploadFile.json"})
          => genRequests' = genRequests /\ requests' = requests]_vars

\* getTextModels got 429 and failed with 'Failed to fetch models: Too Many
\* Requests' after its one request.
C23_Witness ==
  /\ lastOp.op = "getTextModels"
  /\ NotOk
  /\ lastOp.result = Error(<<"Failed to fetch models: ", "Too Many Requests">>)
  /\ lastOp.fetches = 1
  /\ Len(genRequests) = 1

\* C24: isConfigured() tracks the held credential.  On either service
\* setApiKey(k) makes k the held credential and no other step changes it, so
\* the held credential is always the one set last; isConfigured() returns
\* true exactly when it is a non-empty string; setBaseUrl(u) makes u the held
\* base URL; and a request issued by a later call carries the held
\* credential (Authorization header, form field `key`) and the held base URL.
HeldBy(op) == IF op = "pollinations.isConfigured" THEN poll.apiKey ELSE apiKey
C24_ConfigurationTracksSetters ==
  /\ [](lastOp.op \in {"pollinations.isConfigured", "isConfigured"} =>
          lastOp.ret = <<Boolean(HeldBy(lastOp.op) # "")>>)
  /\ [][ /\ IF lastOp'.op = "pollinations.setApiKey"
            THEN poll'.apiKey = lastOp'.args[1]
            ELSE poll'.apiKey = poll.apiKey
         /\ IF lastOp'.op = "setApiKey"
            THEN apiKey' = lastOp'.args[1]
            ELSE apiKey' = apiKey
         /\ IF lastOp'.op = "pollinations.setBaseUrl"
            THEN poll'.baseUrl = lastOp'.args[1]
            ELSE poll'.baseUrl = poll.baseUrl
         /\ lastOp'.url = "call" =>
              /\ genRequests'[Len(genRequests')].url.base = poll.baseUrl
              /\ genRequests'[Len(genRequests')].headers =
                   IF poll.apiKey = "" THEN <<>>
                   ELSE <<Field("Authorization", "Bearer " \o poll.apiKey)>>
         /\ (lastOp'.op = "uploadFile") =>
              \A s \in 1..MaxUploads :
                (uploads'[s] # uploads[s] => uploads'[s].form[1] = Field("key", apiKey))
         ]_vars

\* The key was set to 'key-2' and then to the empty string: a request went
\* out with 'Bearer key-2' through a proxy base URL, and isConfigured() now
\* returns false; the upload service, constructed without a key, was given
\* one and an upload carrying it is under way.
C24_Witness ==
  /\ lastOp.op = "pollinations.isConfigured"
  /\ lastOp.ret = <<Boolean(FALSE)>>
  /\ Len(genRequests) >= 1
  /\ genRequests[1].headers = <<Field("Authorization", "Bearer key-2")>>
  /\ genRequests[1].url.base = "https://proxy.example"
  /\ \E s \in 1..MaxUploads : uploads[s].pc # "idle" /\ uploads[s].form[1].value = EnvKey

\* C25: uploadMultiple surfaces no partial results.  As soon as the upload of
\* one file has failed the call has failed with the error of a failed upload,
\* it returns nothing, and neither changes afterwards; when the call returns,
\* every upload has succeeded and the i-th response answers the request that
\* carried the i-th file.
ImageOf(file) == IF file.kind = "string" THEN file.text ELSE fileToBase64(file)
Failed == {i \in 1..Len(multi.entries) : multi.entries[i].state = "rejected"}
C25_AllOrNothingInOrder ==
  /\ []( /\ Failed # {} =>
             /\ multi.pc = "rejected"
             /\ multi.ret = <<>>
             /\ \E i \in Failed : multi.error = multi.entries[i].error
         /\ multi.pc = "fulfilled" =>
             /\ multi.error = <<>>
             /\ Len(multi.ret[1]) = Len(multi.files)
             /\ \A i \in 1..Len(multi.files) :
                  /\ multi.ret[1][i].success
                  /\ multi.ret[1][i].request[2] = Field("image", ImageOf(multi.files[i]))
         /\ multi.pc = "pending" => multi.ret = <<>> /\ multi.error = <<>>)
  /\ [][(multi.pc = "rejected" /\ lastOp'.op # "uploadMultiple") => multi'.error = multi.error
        ]_vars

\* Of two files the second was uploaded and answered, the first then failed:
\* the call has failed and returns nothing.
C25_Witness ==
  /\ multi.pc = "rejected"
  /\ Len(multi.files) = 2
  /\ multi.entries[1].state = "rejected"
  /\ multi.entries[2].state = "fulfilled"
  /\ multi.error = <<UploadFailed("Bad Request")>>
  /\ multi.ret = <<>>

\* C26: a load that succeeds, whether loadProvidersFromConfig or
\* loadProvidersFromUrl and whatever the number of templates in the bundle,
\* invokes each subscribed listener exactly once, in one batch; a load that
\* fails invokes none, and neither does a step of a URL load that is still
\* pending.
Loads == {"loadProvidersFromConfig", "loadProvidersFromUrl"}
C26_NotifiedOncePerSuccessfulLoad ==
  lastOp.op \in Loads =>
    IF lastOp.result = Ok
    THEN [i \in 1..Len(notifyLog) |-> notifyLog[i].cb] = providerLoadCallbacks
    ELSE notifyLog = <<>>

\* A URL load of a bundle with no templates succeeded while g and boom were
\* subscribed: both were invoked once, in that order.
C26_Witness ==
  /\ lastOp.op = "loadProvidersFromUrl"
  /\ lastOp.url = "https://cfg/empty"
  /\ lastOp.result = Ok
  /\ providerLoadCallbacks = <<"g", "boom">>
  /\ Len(notifyLog) = 2

\* C27: the step in which a loadProvidersFromUrl call registers its bundle
\* gives every key of the bundle the bundle's template, whatever was stored
\* under it by another load, a registerProvider, an unregisterProvider or a
\* clearAll in the meantime, and leaves every other key as it was.  Of two
\* overlapping loads that succeed the registry therefore holds the keys of
\* both, a shared key with the template of the load processed last.
BundleOf(op) == op.config.providers.items
C27_LastProcessedWins ==
  [][(lastOp'.op = "loadProvidersFromUrl" /\ lastOp'.result = Ok) =>
       \A k \in Keys :
         IF k \in {BundleOf(lastOp')[i].provider : i \in 1..Len(BundleOf(lastOp'))}
         THEN getProvider(externalProviders', k) = LastFor(BundleOf(lastOp'), k)
         ELSE /\ hasProvider(externalProviders', k) = hasProvider(externalProviders, k)
              /\ getProvider(externalProviders', k) = getProvider(externalProviders, k)
    ]_vars

\* The bundle of cfg/a (p1, p2) was registered by an earlier load; the load of
\* cfg/b has now been processed and its template replaced the one of cfg/a under
\* p1, p2 is still there, and a load of cfg/a started before is still pending.
C27_Witness ==
  /\ lastOp.op = "loadProvidersFromUrl"
  /\ lastOp.url = "https://cfg/b"
  /\ lastOp.result = Ok
  /\ getProvider(externalProviders, Str("p1")) = A2
  /\ getProvider(externalProviders, Str("p2")) = B1
  /\ loads[1].url = "https://cfg/a"
  /\ loads[2] = Idle

\* A call made through useAIGeneration has not ended yet.
HookInFlight ==
  \/ \E s \in 1..MaxCalls : genCalls[s].pc # "idle" /\ genCalls[s].via # ""
  \/ \E s \in 1..MaxUploads : uploads[s].pc # "idle" /\ uploads[s].via # ""

\* C28: isGenerating of useAIGeneration is true exactly while at least one
\* call made through the hook is in flight, also when calls overlap, and false
\* once none is.
C28_BusyWhileAnyInFlight == hook.isGenerating <=> HookInFlight

\* The uploadFile call that generateVideoWithReference awaits ends in the step
\* into the primed state, successfully or not.
RefUploadEnds(s) ==
  uploads[s].via = Reference /\ uploads[s].pc # "idle" /\ uploads'[s].pc = "idle"
RefUploadSucceeds(s) ==
  RefUploadEnds(s) /\ uploads[s].pc = "json" /\ uploads[s].body = "success"
RefFailsAtOnce == lastOp'.cb = Reference /\ lastOp'.url = "call" /\ apiKey = ""
ResolvesToError ==
  /\ lastOp'.result = Ok
  /\ Len(lastOp'.ret) = 1
  /\ DOMAIN lastOp'.ret[1] = {"error"}
  /\ hook'.error = <<lastOp'.ret[1].error>>
  /\ ~hook'.isGenerating
  /\ genRequests' = genRequests
  /\ \A c \in 1..MaxCalls : genCalls'[c].pc = "idle"

\* C30: generateVideoWithReference issues its generation request in the step
\* in which the reference upload completes successfully and in no other, the
\* request carrying the uploaded file's URL as the parameter `image`; while
\* the upload is pending no generation is under way; and when the upload
\* fails (no key, reader, transport, status, body) no generation request is
\* made and the call resolves to {error: message} without throwing.
C30_UploadThenGenerate ==
  /\ [](\A s \in 1..MaxUploads :
          (uploads[s].via = Reference /\ uploads[s].pc # "idle") =>
             \A c \in 1..MaxCalls : genCalls[c].pc = "idle")
  /\ [][  /\ genRequests' # genRequests =>
              /\ \E s \in 1..MaxUploads : RefUploadSucceeds(s)
              /\ Len(genRequests') = Len(genRequests) + 1
              /\ \E i \in 1..Len(genRequests'[Len(genRequests')].url.query) :
                   genRequests'[Len(genRequests')].url.query[i] = Field("image", DataUrl)
          /\ \A s \in 1..MaxUploads :
               IF RefUploadSucceeds(s) THEN genRequests' # genRequests
               ELSE RefUploadEnds(s) => ResolvesToError
          /\ RefFailsAtOnce => ResolvesToError
        ]_vars

\* A first call uploaded its reference and asked for the video with it; the
\* reference upload of a second call was answered 400 and the call resolved
\* to the error, with no further generation request.
C30_Witness ==
  /\ lastOp.cb = Reference
  /\ lastOp.op = "uploadFile.fetch"
  /\ lastOp.result = Ok
  /\ lastOp.ret = <<[error |-> <<"ImgBB upload failed: ", "Bad Request">>]>>
  /\ Len(genRequests) = 1
  /\ genRequests[1].url.query = <<Field("image", DataUrl)>>
  /\ genRequests[1].url.path[1] = "image"

\* The callbacks the step into the primed state invoked, in order.
Invoked == [i \in 1..Len(notifyLog') |-> notifyLog'[i].cb]
Batch == lastOp'.op \in {"registerProvider", "clearAll"}
Before(a, b, q) == \E i, j \in 1..Len(q) : i < j /\ q[i] = a /\ q[j] = b

\* C29: a notification batch invokes the listeners subscribed when the batch
\* starts, in subscription order, whatever the callbacks subscribe or
\* unsubscribe while the batch runs.
C29_BatchOverSnapshot == [][Batch => Invoked = providerLoadCallbacks]_vars

\* C29, amended: the batch walks the live Set in subscription order.  When no
\* callback changes the subscriptions it invokes the listeners subscribed at
\* the start, each once, in order.  A listener that an earlier callback
\* unsubscribed before its turn (and nobody subscribed again) is not invoked
\* in that batch; a listener that a callback subscribed during the batch (and
\* nobody unsubscribed again before its turn) is invoked in that batch, after
\* every listener subscribed before it; the other listeners are invoked once
\* each in subscription order.
C29_BatchOverLiveSet ==
  [][Batch =>
       LET start == providerLoadCallbacks IN
       /\ Range(start) \cap Reentrant = {} => Invoked = start
       /\ (Before("dropG", "g", start) /\ ~SetHas(start, "addG")) => ~SetHas(Invoked, "g")
       /\ (SetHas(start, "addG") /\ ~SetHas(start, "g") /\ ~Before("addG", "dropG", start)) =>
             /\ Invoked = Append(start, "g")
             /\ providerLoadCallbacks' = Append(start, "g")
       /\ SelectSeq(Invoked, LAMBDA cb : cb # "g") = SelectSeq(start, LAMBDA cb : cb # "g")
    ]_vars

\* g was invoked, unsubscribed by dropG, subscribed again by addG and invoked
\* a second time, all in one batch.
C29_Witness ==
  /\ lastOp.op = "registerProvider"
  /\ [i \in 1..Len(notifyLog) |-> notifyLog[i].cb] = <<"g", "dropG", "addG", "g">>
  /\ providerLoadCallbacks = <<"dropG", "addG", "g">>

====
